---- MODULE Spec2Model ----
(***************************************************************************)
(* Acquisition pipeline of penaltyblog: the source-fallback orchestrator   *)
(* (UnifiedScraper.scrape_league) and the retrying fetcher                 *)
(* (RequestsScraper.get).                                                  *)
(***************************************************************************)
EXTENDS Integers, Sequences, FiniteSets, TLC

(***************************************************************************)
(* Bounds of the model                                                     *)
(***************************************************************************)
\* largest number of rows of a fetched dataset
MaxRows == 5
\* largest max_retries a RequestsScraper is constructed with
MaxRetriesBound == 2
\* the largest fetch_count a run lets a record reach
MaxFetches == 2
\* the record_data_fetch calls the two workers make in one run
MaxCalls == 3
\* the record_quality_metrics calls of one run
MaxTrendCalls == 102
\* the rows of the largest table handed to the validator
MaxFixtureRows == 2
\* the latest hour the clock of a monitor run reaches
MaxClock == 25

(***************************************************************************)
(* Values                                                                  *)
(***************************************************************************)
\* pandas NaT of a parsed date column (pd.to_datetime(..., errors='coerce'))
NaT == -1
\* pandas NA of a goals column (tested with .notna())
NA == 99
\* len(df) < 5 is rejected by _validate_real_data
MinRows == 5

Sources == {"fbref", "understat", "footballdata"}

\* an instant is a half-day: instant t lies on calendar day t \div 2
DateOf(t) == t \div 2

\* datetime.now() values a run may observe: the morning of day 2
Nows == {4}

\* the rows a provider may deliver
RowTable ==
  << [date |-> 2, team_home |-> "Arsenal", team_away |-> "Chelsea",
      goals_home |-> 2, goals_away |-> 1],
     [date |-> 2, team_home |-> "Arsenal", team_away |-> "Arsenal",
      goals_home |-> 0, goals_away |-> 0],
     [date |-> 2, team_home |-> "Test FC", team_away |-> "Chelsea",
      goals_home |-> 3, goals_away |-> 0],
     [date |-> 5, team_home |-> "Chelsea", team_away |-> "Arsenal",
      goals_home |-> 1, goals_away |-> 1],
     [date |-> 6, team_home |-> "Arsenal", team_away |-> "Chelsea",
      goals_home |-> NA, goals_away |-> NA],
     [date |-> 6, team_home |-> "Chelsea", team_away |-> "Arsenal",
      goals_home |-> 1, goals_away |-> 0] >>

\* get_fixtures ends with set_index(["id"]).sort_index(): rows arrive sorted
RowSeqs ==
  UNION { { [i \in 1..n |-> RowTable[f[i]]] :
              f \in { g \in [1..n -> 1..Len(RowTable)] :
                        \A i \in 1..n : \A j \in 1..n : i <= j => g[i] <= g[j] } } :
          n \in 0..MaxRows }

AllColumns == {"date", "team_home", "team_away", "goals_home", "goals_away"}

\* the column sets a provider's table may carry
ColumnSets ==
  { AllColumns, AllColumns \ {"date"} }

\* pd.DataFrame(): no columns, no rows
EmptyDataFrame == [columns |-> {}, rows |-> << >>]

\* a table without date column has no dates in its rows
Cells(r, cols) ==
  [date |-> IF "date" \in cols THEN r.date ELSE NaT,
   team_home |-> r.team_home, team_away |-> r.team_away,
   goals_home |-> r.goals_home, goals_away |-> r.goals_away]

Datasets ==
  { [columns |-> c, rows |-> [i \in 1..Len(r) |-> Cells(r[i], c)]] :
      c \in ColumnSets, r \in RowSeqs }


(***************************************************************************)
(* State                                                                   *)
(***************************************************************************)
VARIABLES
  \* --- UnifiedScraper.scrape_league ---
  pc,                 \* position of the run: idle, trying, exhausted, done, failed, raised
  now,                \* datetime.now() of the run
  comp_data,          \* COMPETITION_MAPPINGS[competition]: the sources that know it
  league_code,        \* argument of scrape_league
  preferred_source,   \* argument of scrape_league ("" is None)
  sources_to_try,     \* the candidate list
  idx,                \* number of candidates the loop has finished
  attempted_sources,  \* local list of scrape_league
  last_error,         \* local of scrape_league ("" is None)
  ret,                \* what the caller of scrape_league receives
  last_outcome,       \* history: how the latest candidate ended
  fetched_future_done, \* history: the latest fetched table had a completed future row
  accepted_raw,       \* history: the table as fetched from the accepted candidate
  \* --- RequestsScraper.get ---
  g_pc,               \* position of the call: idle, loop, sending, returned, raised
  max_retries,        \* self.max_retries
  api_url,            \* whether "api" occurs in url.lower()
  attempt,            \* loop variable of get
  adapter_left,       \* retries the session's Retry adapter has left in this attempt
  requests_sent,      \* history: HTTP requests put on the wire by this call
  last_exception,     \* local of get ("" is None)
  g_ret,              \* what the caller of get receives
  g_waits,            \* history: the backoff sleeps of get, in order
  g_last_failure,     \* history: how the latest failed attempt failed
  g_retry_cause,      \* history: the failure the latest further attempt followed
  g_last_status,      \* history: status of the latest response handed to get
  g_screen,           \* history: what validate_response_data said in the latest attempt
  g_screened,         \* history: size, marker and kind of the body screened last
  \* --- DataFreshnessMonitor ---
  m_file,             \* content of data_metadata.json in the cache directory
  m_mem,              \* self.metadata of each worker's monitor object
  m_pc,               \* position of each worker: none, ready, called, constructed, assigned
  m_args,             \* arguments of each worker's record_data_fetch call
  m_clock,            \* datetime.now(), in hours
  m_ret,              \* history: the latest operation, its arguments and its result
  m_high,             \* history: the highest fetch_count stored so far under each key
  m_calls,            \* history: record_data_fetch calls made so far for each key
  \* --- DataQualityTrend ---
  t_file,             \* content of quality_trends.json in the cache directory
  t_trends,           \* self.trends of the tracker object
  t_pc,               \* whether a tracker object exists: none, ready
  t_count,            \* history: record_quality_metrics calls made so far for each key
  t_ret,              \* history: the latest get_quality_trend call and its result
  \* --- DataQualityValidator.validate_fixtures_data ---
  v_pc,               \* position of the call: idle, a check, done, returned, raised
  v_strict,           \* self.strict_mode
  v_df,               \* argument df
  v_season,           \* argument season
  v_now,              \* datetime.now() of the call
  v_report,           \* self.validation_report
  v_ret,              \* what the caller receives: pending, report, DataValidationError
  v_ran,              \* history: the checks that were run, in order
  \* --- DataQualityValidator.cross_validate_sources ---
  x_pc,               \* position of the call: idle, except, returned, raised
  x_strict,           \* self.strict_mode
  x_s1,               \* argument source1
  x_s2,               \* argument source2
  x_report,           \* self.validation_report, with its cross_validation key
  x_ret,              \* what the call hands back: pending, report, or the exception
  \* --- hash_dataframe ---
  h_pc,               \* idle, or hashed once two tables have been hashed
  h_df1,              \* argument of the first call
  h_df2,              \* argument of the second call
  h_hash1,            \* result of the first call
  h_hash2,            \* result of the second call
  \* --- UnifiedScraper.scrape_multiple_leagues ---
  p_pc,               \* position of the call: idle, collecting, returned
  p_codes,            \* argument league_codes
  p_max_workers,      \* self.max_workers
  p_task,             \* per submitted run: queued, running, done, collected
  p_outcome,          \* per submitted run: how its scrape_league ended ("" not yet)
  p_results,          \* the local dict results
  p_order,            \* history: the runs in the order as_completed yielded them
  \* --- one DataQualityValidator object used by several threads ---
  s_heap,             \* the report dicts created so far, by object identity
  s_self,             \* the dict self.validation_report is bound to
  s_pc,               \* position of each thread: idle, called, running
  s_call,             \* the call each thread is in, and its number among all calls
  s_todo,             \* the _add_* calls and key assignments each call has yet to make
  s_returned,         \* history: the calls that returned, each with the dict handed back
  s_calls             \* history: calls made so far

scrape_vars == << pc, now, comp_data, league_code, preferred_source, sources_to_try,
                  idx, attempted_sources, last_error, ret, last_outcome,
                  fetched_future_done, accepted_raw >>

get_vars == << g_pc, max_retries, api_url, attempt, adapter_left, requests_sent,
               last_exception, g_ret, g_waits, g_last_failure, g_retry_cause,
               g_last_status, g_screen, g_screened >>

monitor_vars == << m_file, m_mem, m_pc, m_args, m_clock, m_ret, m_high, m_calls >>

trend_vars == << t_file, t_trends, t_pc, t_count, t_ret >>

validator_vars == << v_pc, v_strict, v_df, v_season, v_now, v_report, v_ret, v_ran >>

cross_vars == << x_pc, x_strict, x_s1, x_s2, x_report, x_ret >>

hash_vars == << h_pc, h_df1, h_df2, h_hash1, h_hash2 >>

pool_vars == << p_pc, p_codes, p_max_workers, p_task, p_outcome, p_results, p_order >>

shared_vars == << s_heap, s_self, s_pc, s_call, s_todo, s_returned, s_calls >>

vars ==
  << scrape_vars, get_vars, monitor_vars, trend_vars, validator_vars, cross_vars,
     hash_vars, pool_vars, shared_vars >>

\* what the operations of one component leave alone
not_scrape_vars ==
  << get_vars, monitor_vars, trend_vars, validator_vars, cross_vars, hash_vars,
     pool_vars, shared_vars >>

not_get_vars ==
  << scrape_vars, monitor_vars, trend_vars, validator_vars, cross_vars, hash_vars,
     pool_vars, shared_vars >>

not_monitor_vars ==
  << scrape_vars, get_vars, trend_vars, validator_vars, cross_vars, hash_vars,
     pool_vars, shared_vars >>

not_trend_vars ==
  << scrape_vars, get_vars, monitor_vars, validator_vars, cross_vars, hash_vars,
     pool_vars, shared_vars >>

not_validator_vars ==
  << scrape_vars, get_vars, monitor_vars, trend_vars, cross_vars, hash_vars,
     pool_vars, shared_vars >>

not_cross_vars ==
  << scrape_vars, get_vars, monitor_vars, trend_vars, validator_vars, hash_vars,
     pool_vars, shared_vars >>

not_hash_vars ==
  << scrape_vars, get_vars, monitor_vars, trend_vars, validator_vars, cross_vars,
     pool_vars, shared_vars >>

not_pool_vars ==
  << scrape_vars, get_vars, monitor_vars, trend_vars, validator_vars, cross_vars,
     hash_vars, shared_vars >>

not_shared_vars ==
  << scrape_vars, get_vars, monitor_vars, trend_vars, validator_vars, cross_vars,
     hash_vars, pool_vars >>

(***************************************************************************)
(* UnifiedScraper: candidate list                                          *)
(***************************************************************************)
LeagueCodes == {"ENG_PL", "USA_XX"}

\* "" stands for a league code without entry (dict.get gives None)
LEAGUE_TO_COMPETITION(code) ==
  IF code = "ENG_PL" THEN "ENG Premier League" ELSE ""

\* preferred_source values: None, the three providers, and an unknown name
PreferredSources == Sources \cup {"", "espn"}

get_available_sources_for_league(code, mapping) ==
  LET competition == LEAGUE_TO_COMPETITION(code)
      Known(s) == s \in mapping
  IN  IF competition = "" THEN << >>
      ELSE SelectSeq(<< "fbref", "understat", "footballdata" >>, Known)

source_priority == << "fbref", "footballdata", "understat" >>

InSeq(x, s) == \E i \in 1..Len(s) : s[i] = x

\* variant: the candidates keep the order of the available list
candidate_list_available_order(available_sources, preferred) ==
  LET Rest(s) == s # preferred
  IN  IF preferred # "" /\ InSeq(preferred, available_sources)
      THEN << preferred >> \o SelectSeq(available_sources, Rest)
      ELSE available_sources

candidate_list(available_sources, preferred) ==
  LET Rest(s) == InSeq(s, available_sources) /\ s # preferred
      Avail(s) == InSeq(s, available_sources)
  IN  IF preferred # "" /\ InSeq(preferred, available_sources)
      THEN << preferred >> \o SelectSeq(source_priority, Rest)
      ELSE SelectSeq(source_priority, Avail)

(***************************************************************************)
(* UnifiedScraper: the acquisition gate and the standard form              *)
(***************************************************************************)
fake_patterns == {"test", "demo", "fake", "sample", "placeholder"}

\* the fake patterns found in str(team).lower()
PatternsIn(team) == IF team = "Test FC" THEN {"test"} ELSE {}

\* variant: the gate without its temporal check
_validate_real_data_no_temporal(df, current) ==
  LET team_cols == {"team_home", "team_away"} \subseteq df.columns
      fake(r) == \/ PatternsIn(r.team_home) \cap fake_patterns # {}
                 \/ PatternsIn(r.team_away) \cap fake_patterns # {}
  IN  IF Len(df.rows) = 0 THEN FALSE
      ELSE IF team_cols /\ \E i \in 1..Len(df.rows) : fake(df.rows[i])
        THEN FALSE
      ELSE IF Len(df.rows) < MinRows THEN FALSE
      ELSE TRUE

_validate_real_data(df, current) ==
  LET temporal_cols == {"date", "goals_home", "goals_away"} \subseteq df.columns
      invalid_future(r) == /\ r.date # NaT
                           /\ DateOf(r.date) > DateOf(current)
                           /\ r.goals_home # NA
                           /\ r.goals_away # NA
      team_cols == {"team_home", "team_away"} \subseteq df.columns
      fake(r) == \/ PatternsIn(r.team_home) \cap fake_patterns # {}
                 \/ PatternsIn(r.team_away) \cap fake_patterns # {}
  IN  IF Len(df.rows) = 0 THEN FALSE
      ELSE IF temporal_cols /\ \E i \in 1..Len(df.rows) : invalid_future(df.rows[i])
        THEN FALSE
      ELSE IF team_cols /\ \E i \in 1..Len(df.rows) : fake(df.rows[i])
        THEN FALSE
      ELSE IF Len(df.rows) < MinRows THEN FALSE
      ELSE TRUE

\* the columns _standardize_dataframe adds
StandardColumns(cols) ==
  {"league_code", "data_source", "league_name", "country", "tier",
   "home_score", "away_score", "xg_home", "xg_away"}
  \cup (IF "team_home" \in cols THEN {"home"} ELSE {})
  \cup (IF "team_away" \in cols THEN {"away"} ELSE {})

_standardize_dataframe(df, code, source) ==
  LET Std(r) ==
        [ date |-> r.date, team_home |-> r.team_home, team_away |-> r.team_away,
          goals_home |-> r.goals_home, goals_away |-> r.goals_away,
          league_code |-> code, data_source |-> source,
          home |-> IF "team_home" \in df.columns THEN r.team_home ELSE "",
          away |-> IF "team_away" \in df.columns THEN r.team_away ELSE "",
          home_score |-> IF "goals_home" \in df.columns THEN r.goals_home ELSE NA,
          away_score |-> IF "goals_away" \in df.columns THEN r.goals_away ELSE NA ]
  IN  [ columns |-> df.columns \cup StandardColumns(df.columns),
        rows |-> [i \in 1..Len(df.rows) |-> Std(df.rows[i])] ]

(***************************************************************************)
(* UnifiedScraper.scrape_league_from_source                                *)
(***************************************************************************)
\* What the environment does during one candidate: how get_league_by_code
\* ends, whether the provider's get_fixtures raises (fetch or parse error),
\* the table it returns, and whether standardizing raises.
Attempts ==
  { [lookup |-> l, fetch_raises |-> FALSE, std_raises |-> FALSE, df |-> EmptyDataFrame] :
      l \in {"raises", "missing"} }
  \cup { [lookup |-> "ok", fetch_raises |-> TRUE, std_raises |-> FALSE,
          df |-> EmptyDataFrame] }
  \cup { [lookup |-> "ok", fetch_raises |-> FALSE, std_raises |-> b, df |-> d] :
           b \in BOOLEAN, d \in Datasets }

NoneResult(how) == [kind |-> "none", df |-> EmptyDataFrame, error |-> "", outcome |-> how]

scrape_league_from_source(code, source, a, current) ==
  IF LEAGUE_TO_COMPETITION(code) = "" THEN NoneResult("no_mapping")
  ELSE IF a.lookup = "raises"
    THEN [kind |-> "raise", df |-> EmptyDataFrame, error |-> "league_lookup",
          outcome |-> "lookup_raised"]
  ELSE IF a.lookup = "missing" THEN NoneResult("no_league")
  ELSE IF source \notin Sources THEN NoneResult("unknown_source")
  ELSE IF a.fetch_raises THEN NoneResult("scraper_raised")
  ELSE IF Len(a.df.rows) = 0 THEN NoneResult("empty")
  ELSE IF ~ _validate_real_data(a.df, current) THEN NoneResult("rejected")
  ELSE IF a.std_raises THEN NoneResult("standardize_raised")
  ELSE [kind |-> "df", df |-> _standardize_dataframe(a.df, code, source),
        error |-> "", outcome |-> "accepted"]

(***************************************************************************)
(* UnifiedScraper.scrape_league                                            *)
(***************************************************************************)
Pending == [kind |-> "pending", df |-> EmptyDataFrame, error |-> "", attempted |-> << >>]

\* variant: the loop without its except clause
loop_body_no_except(r, err) ==
  IF r.kind = "raise" THEN [act |-> "propagate", last_error |-> err]
  ELSE IF r.kind = "df" /\ Len(r.df.rows) # 0
    THEN [act |-> "return", last_error |-> err]
  ELSE [act |-> "continue", last_error |-> err]

\* the body of the candidate loop: what to do with a candidate's result
loop_body(r, err) ==
  IF r.kind = "raise" THEN [act |-> "continue", last_error |-> r.error]
  ELSE IF r.kind = "df" /\ Len(r.df.rows) # 0
    THEN [act |-> "return", last_error |-> err]
  ELSE [act |-> "continue", last_error |-> err]

\* variant: a sample table stands in when every candidate has failed
all_sources_failed_sample(attempted, err) ==
  [kind |-> "df",
   df |-> _standardize_dataframe([columns |-> AllColumns, rows |-> << RowTable[1] >>],
                                 "ENG_PL", "sample"),
   error |-> "", attempted |-> << >>]

\* what scrape_league hands back once every candidate has failed
all_sources_failed(attempted, err) ==
  [kind |-> "df", df |-> EmptyDataFrame, error |-> "", attempted |-> << >>]

InitScrape ==
  /\ pc = "idle"
  /\ now \in Nows
  /\ comp_data \in SUBSET Sources
  /\ league_code = ""
  /\ preferred_source = ""
  /\ sources_to_try = << >>
  /\ idx = 0
  /\ attempted_sources = << >>
  /\ last_error = ""
  /\ ret = Pending
  /\ last_outcome = ""
  /\ fetched_future_done = FALSE
  /\ accepted_raw = EmptyDataFrame

StartRun ==
  /\ pc = "idle"
  /\ \E code \in LeagueCodes, pref \in PreferredSources :
       LET available_sources == get_available_sources_for_league(code, comp_data)
       IN  /\ league_code' = code
           /\ preferred_source' = pref
           /\ IF available_sources = << >>
              THEN /\ pc' = "raised"
                   /\ ret' = [kind |-> "raise", df |-> EmptyDataFrame,
                              error |-> "no_sources", attempted |-> << >>]
                   /\ UNCHANGED sources_to_try
              ELSE /\ pc' = "trying"
                   /\ sources_to_try' = candidate_list(available_sources, pref)
                   /\ UNCHANGED ret
  /\ UNCHANGED << now, comp_data, idx, attempted_sources, last_error, last_outcome,
                  fetched_future_done, accepted_raw >>
  /\ UNCHANGED not_scrape_vars

\* the claim's own reading of a completed result dated after today
FutureCompleted(row, current) ==
  /\ row.date # NaT
  /\ DateOf(row.date) > DateOf(current)
  /\ row.goals_home # NA
  /\ row.goals_away # NA

HasFutureCompleted(df, current) ==
  /\ {"date", "goals_home", "goals_away"} \subseteq df.columns
  /\ \E i \in 1..Len(df.rows) : FutureCompleted(df.rows[i], current)

\* one pass of the candidate loop, the environment answering with one of the
\* given attempts
TrySourceWith(attempts) ==
  /\ pc = "trying"
  /\ idx < Len(sources_to_try)
  /\ \E a \in attempts :
       LET source == sources_to_try[idx + 1]
           r == scrape_league_from_source(league_code, source, a, now)
           todo == loop_body(r, last_error)
       IN  /\ attempted_sources' = Append(attempted_sources, source)
           /\ last_outcome' = r.outcome
           /\ fetched_future_done' = HasFutureCompleted(a.df, now)
           /\ last_error' = todo.last_error
           /\ IF todo.act = "return"
              THEN /\ pc' = "done"
                   /\ ret' = [kind |-> "df", df |-> r.df, error |-> "",
                              attempted |-> << >>]
                   /\ accepted_raw' = a.df
                   /\ UNCHANGED idx
              ELSE IF todo.act = "continue"
              THEN /\ idx' = idx + 1
                   /\ UNCHANGED << pc, ret, accepted_raw >>
              ELSE /\ pc' = "raised"
                   /\ ret' = [kind |-> "raise", df |-> EmptyDataFrame,
                              error |-> r.error, attempted |-> << >>]
                   /\ UNCHANGED << idx, accepted_raw >>
  /\ UNCHANGED << now, comp_data, league_code, preferred_source, sources_to_try >>
  /\ UNCHANGED not_scrape_vars

TrySource == TrySourceWith(Attempts)

\* the attempts whose table repeats one row: every way a candidate can end,
\* with fewer tables
UniformAttempts ==
  { a \in Attempts : \A i \in 1..Len(a.df.rows) : a.df.rows[i] = a.df.rows[1] }

TrySourceUniform == TrySourceWith(UniformAttempts)

AllSourcesFailed ==
  /\ pc = "trying"
  /\ idx = Len(sources_to_try)
  /\ pc' = "exhausted"
  /\ ret' = all_sources_failed(attempted_sources, last_error)
  /\ UNCHANGED << now, comp_data, league_code, preferred_source, sources_to_try, idx,
                  attempted_sources, last_error, last_outcome, fetched_future_done,
                  accepted_raw >>
  /\ UNCHANGED not_scrape_vars

(***************************************************************************)
(* RequestsScraper: response bodies and validate_response_data             *)
(***************************************************************************)
\* len(data) < 50 is too small
MinSize == 50
\* an API response that is not structured must be longer than 200
ApiSize == 200

\* A body is described by what validate_response_data reads of it:
\*   len      len(data)
\*   blank    data.strip() is empty
\*   marker   data.lower() contains one of the error indicators
\*   html     data.lower() contains "<html" or "<!doctype html"
\*   content  it contains one of the content indicators
\*   nodata   it contains one of the "no data" indicators
\*   comma_nl it contains "," and a line break
\*   lines    len(data.strip().split('\n'))
\*   cols     len(lines[0].split(','))
\*   first    first character of data.strip(): "brace" ({ or [), "angle" (<), "other"
\*   json     how json.loads(data) ends: invalid, empty, error_field, ok
BodyShapes ==
  { [html |-> TRUE, content |-> c, nodata |-> n, comma_nl |-> FALSE, lines |-> 2,
     cols |-> 1, first |-> "angle", json |-> "invalid"] : c \in BOOLEAN, n \in BOOLEAN }
  \cup
  { [html |-> FALSE, content |-> FALSE, nodata |-> FALSE, comma_nl |-> TRUE, lines |-> l,
     cols |-> k, first |-> "other", json |-> "invalid"] : l \in {1, 2}, k \in {2, 3} }
  \cup
  { [html |-> FALSE, content |-> FALSE, nodata |-> FALSE, comma_nl |-> FALSE, lines |-> 1,
     cols |-> 1, first |-> "brace", json |-> j] :
       j \in {"invalid", "empty", "error_field", "ok"} }
  \cup
  { [html |-> FALSE, content |-> FALSE, nodata |-> FALSE, comma_nl |-> TRUE, lines |-> 2,
     cols |-> k, first |-> "brace", json |-> j] :
       k \in {1, 3}, j \in {"error_field", "ok"} }
  \cup
  { [html |-> FALSE, content |-> FALSE, nodata |-> FALSE, comma_nl |-> FALSE, lines |-> 1,
     cols |-> 1, first |-> "other", json |-> "invalid"] }

Body(len, blank, marker, sh) ==
  [len |-> len, blank |-> blank, marker |-> marker, html |-> sh.html,
   content |-> sh.content, nodata |-> sh.nodata, comma_nl |-> sh.comma_nl,
   lines |-> sh.lines, cols |-> sh.cols, first |-> sh.first, json |-> sh.json]

PlainShape == CHOOSE sh \in BodyShapes : sh.first = "other" /\ ~ sh.comma_nl

EmptyBody == Body(0, TRUE, FALSE, PlainShape)

Bodies ==
  { EmptyBody, Body(10, TRUE, FALSE, PlainShape) }
  \cup { Body(l, FALSE, m, sh) : l \in {10, 60, 250}, m \in BOOLEAN, sh \in BodyShapes }

\* variant: the error indicators are not looked for
validate_response_data_no_indicators(data, api) ==
  IF data.len = 0 \/ data.blank THEN FALSE
  ELSE IF data.len < MinSize THEN FALSE
  ELSE IF data.html /\ (~ data.content \/ data.nodata) THEN FALSE
  ELSE IF ~ data.html /\ data.comma_nl /\ (data.lines < 2 \/ data.cols < 3) THEN FALSE
  ELSE IF ~ data.html /\ ~ data.comma_nl /\ data.first = "brace" /\ data.json # "ok"
    THEN FALSE
  ELSE IF api /\ ~ (data.first \in {"brace", "angle"} \/ data.len > ApiSize) THEN FALSE
  ELSE TRUE

validate_response_data(data, api) ==
  IF data.len = 0 \/ data.blank THEN FALSE
  ELSE IF data.marker THEN FALSE
  ELSE IF data.len < MinSize THEN FALSE
  ELSE IF data.html /\ (~ data.content \/ data.nodata) THEN FALSE
  ELSE IF ~ data.html /\ data.comma_nl /\ (data.lines < 2 \/ data.cols < 3) THEN FALSE
  ELSE IF ~ data.html /\ ~ data.comma_nl /\ data.first = "brace" /\ data.json # "ok"
    THEN FALSE
  ELSE IF api /\ ~ (data.first \in {"brace", "angle"} \/ data.len > ApiSize) THEN FALSE
  ELSE TRUE

(***************************************************************************)
(* RequestsScraper: the session's Retry adapter                            *)
(***************************************************************************)
status_forcelist == {429, 500, 502, 503, 504}

\* the statuses a server may answer with
Statuses == {200, 400, 401, 403, 404, 410, 418, 429, 500, 501, 503}

\* what one HTTP request on the wire may end in
WireOutcomes ==
  { [kind |-> k, status |-> 0, body |-> EmptyBody] :
      k \in {"timeout", "connection"} }
  \cup { [kind |-> "response", status |-> st, body |-> EmptyBody] :
           st \in Statuses \ {200} }
  \cup { [kind |-> "response", status |-> 200, body |-> b] : b \in Bodies }

\* Retry(total=max_retries, status_forcelist=..., allowed_methods=[... "GET" ...]):
\* the adapter sends the request again by itself, while it has retries left,
\* after a timeout, a connection failure or a status of the force list
adapter_retries(o, left) ==
  /\ left > 0
  /\ \/ o.kind \in {"timeout", "connection"}
     \/ o.kind = "response" /\ o.status \in status_forcelist

\* what session.get hands to get once the adapter has given up or got an answer:
\* a forced status with no retry left surfaces as RetryError
session_get(o) ==
  IF o.kind = "response" /\ o.status \in status_forcelist
  THEN [kind |-> "retry_error", status |-> o.status, body |-> EmptyBody]
  ELSE o

(***************************************************************************)
(* RequestsScraper.get                                                     *)
(***************************************************************************)
\* the exception classes that are RequestException or derive from it
RequestExceptions ==
  {"RequestException", "Timeout", "ConnectionError", "HTTPError", "RetryError"}

\* variant: 410 is left out of the statuses that end the call
terminal_statuses_without_410 == {400, 401, 403, 404}

\* the statuses after which get raises at once
terminal_statuses == {400, 401, 403, 404, 410}

Continue(failure, msg) ==
  [act |-> "continue", exc |-> "RequestException", error |-> msg, failure |-> failure,
   screen |-> "not_run"]

\* variant: the body is returned without the authenticity screen
attempt_result_unscreened(r, api) ==
  IF r.kind = "response" /\ r.status = 200 /\ ~ (r.body.len = 0 \/ r.body.blank)
  THEN [act |-> "return", exc |-> "", error |-> "", failure |-> "", screen |-> "not_run"]
  ELSE Continue("other", "other")

\* one pass of the try block and its except clauses, from what session.get
\* handed over: return the body, go on with the loop, or raise out of get
attempt_result(r, api) ==
  IF r.kind = "timeout" THEN Continue("timeout", "timed_out")
  ELSE IF r.kind = "connection" THEN Continue("connection", "connection_failed")
  ELSE IF r.kind = "retry_error"
    THEN [Continue(IF r.status = 429 THEN "http_429" ELSE "http_5xx", "retry_error")
            EXCEPT !.exc = "RetryError"]
  ELSE IF r.status >= 400
    THEN IF r.status \in terminal_statuses
         THEN [act |-> "raise", exc |-> "RequestException",
               error |-> IF r.status = 404 THEN "not_found"
                         ELSE IF r.status = 403 THEN "access_denied"
                         ELSE "http_error",
               failure |-> "http_terminal", screen |-> "not_run"]
         ELSE Continue(IF r.status = 429 THEN "http_429"
                       ELSE IF r.status >= 500 THEN "http_5xx"
                       ELSE "http_4xx_other", "http_error")
  ELSE IF r.body.len = 0 \/ r.body.blank THEN Continue("empty_body", "empty_response")
  ELSE IF ~ validate_response_data(r.body, api)
    THEN [Continue("rejected", "validation_failed") EXCEPT !.screen = "failed"]
  ELSE [act |-> "return", exc |-> "", error |-> "", failure |-> "", screen |-> "passed"]

RECURSIVE Pow2(_)
Pow2(n) == IF n = 0 THEN 1 ELSE 2 * Pow2(n - 1)

\* variant: the exponent lags one attempt behind
wait_time_lagging(a) == Pow2(a - 1)

\* wait_time = 2 ** attempt, the sleep before the attempt numbered a (from 0)
wait_time(a) == Pow2(a)

\* what the history keeps of a body handed to validate_response_data
Screened(b) == [len |-> b.len, marker |-> b.marker, html |-> b.html]

NoReturn == [kind |-> "pending", body |-> EmptyBody, exc |-> "", error |-> "", status |-> 0]

InitGet ==
  /\ g_pc = "idle"
  /\ max_retries = 0
  /\ api_url = FALSE
  /\ attempt = 0
  /\ adapter_left = 0
  /\ requests_sent = 0
  /\ last_exception = ""
  /\ g_ret = NoReturn
  /\ g_waits = << >>
  /\ g_last_failure = ""
  /\ g_retry_cause = ""
  /\ g_last_status = 0
  /\ g_screen = "not_run"
  /\ g_screened = Screened(EmptyBody)

\* RequestsScraper(max_retries=m).get(url)
GetCall ==
  /\ g_pc = "idle"
  /\ \E m \in 0..MaxRetriesBound, api \in BOOLEAN :
       /\ max_retries' = m
       /\ api_url' = api
  /\ g_pc' = "loop"
  /\ UNCHANGED << attempt, adapter_left, requests_sent, last_exception, g_ret, g_waits,
                  g_last_failure, g_retry_cause, g_last_status, g_screen, g_screened >>
  /\ UNCHANGED not_get_vars

\* head of the for loop: the next attempt begins, after its backoff sleep
BeginAttempt ==
  /\ g_pc = "loop"
  /\ attempt <= max_retries
  /\ g_waits' = IF attempt > 0 THEN Append(g_waits, wait_time(attempt)) ELSE g_waits
  /\ g_retry_cause' = IF attempt > 0 THEN g_last_failure ELSE g_retry_cause
  /\ adapter_left' = max_retries
  /\ g_pc' = "sending"
  /\ UNCHANGED << max_retries, api_url, attempt, requests_sent, last_exception, g_ret,
                  g_last_failure, g_last_status, g_screen, g_screened >>
  /\ UNCHANGED not_get_vars

\* one HTTP request of session.get, and the rest of the attempt when the
\* adapter does not send it again
SendRequest ==
  /\ g_pc = "sending"
  /\ requests_sent' = requests_sent + 1
  /\ \E o \in WireOutcomes :
       IF adapter_retries(o, adapter_left)
       THEN /\ adapter_left' = adapter_left - 1
            /\ UNCHANGED << g_pc, attempt, last_exception, g_ret, g_last_failure,
                            g_last_status, g_screen, g_screened >>
       ELSE LET r == session_get(o)
                todo == attempt_result(r, api_url)
            IN  /\ g_last_status' = IF r.kind = "response" THEN r.status ELSE 0
                /\ g_screen' = todo.screen
                /\ g_screened' = IF todo.screen = "not_run" THEN g_screened
                                 ELSE Screened(r.body)
                /\ g_last_failure' = todo.failure
                /\ UNCHANGED adapter_left
                /\ IF todo.act = "return"
                   THEN /\ g_pc' = "returned"
                        /\ g_ret' = [kind |-> "body", body |-> r.body, exc |-> "",
                                     error |-> "", status |-> r.status]
                        /\ UNCHANGED << attempt, last_exception >>
                   ELSE IF todo.act = "raise"
                   THEN /\ g_pc' = "raised"
                        /\ g_ret' = [kind |-> "raise", body |-> EmptyBody,
                                     exc |-> todo.exc, error |-> todo.error,
                                     status |-> r.status]
                        /\ UNCHANGED << attempt, last_exception >>
                   ELSE /\ g_pc' = "loop"
                        /\ attempt' = attempt + 1
                        /\ last_exception' = todo.exc
                        /\ UNCHANGED g_ret
  /\ UNCHANGED << max_retries, api_url, g_waits, g_retry_cause >>
  /\ UNCHANGED not_get_vars

\* after the loop: raise last_exception or RequestException(...)
AllAttemptsFailed ==
  /\ g_pc = "loop"
  /\ attempt > max_retries
  /\ g_pc' = "raised"
  /\ g_ret' = [kind |-> "raise", body |-> EmptyBody,
               exc |-> IF last_exception # "" THEN last_exception ELSE "RequestException",
               error |-> "all_attempts_failed", status |-> 0]
  /\ UNCHANGED << max_retries, api_url, attempt, adapter_left, requests_sent,
                  last_exception, g_waits, g_last_failure, g_retry_cause, g_last_status,
                  g_screen, g_screened >>
  /\ UNCHANGED not_get_vars

(***************************************************************************)
(* DataFreshnessMonitor: values                                            *)
(***************************************************************************)
\* None where the code has an int or a float
NoneInt == -1

\* timedelta(days=d) in hours; the clock of the model counts hours
HoursPerDay == 24

Workers == {1, 2}

\* the monitor object the single-threaded runs work with
Main == 1

\* (source, competition, season) as callers write them; the first two differ
\* in case and spacing only, the fourth splits the words of the first between
\* competition and season
Identities ==
  { [source |-> "fbref", competition |-> "Premier League", season |-> "2023"],
    [source |-> "FBRef", competition |-> "premier_league", season |-> "2023"],
    [source |-> "understat", competition |-> "La Liga", season |-> "2023"],
    [source |-> "fbref", competition |-> "Premier", season |-> "League 2023"] }

NoIdentity == [source |-> "", competition |-> "", season |-> ""]

\* (data_hash, record_count) of a recorded fetch; "" and NoneInt are None
RecordArgs ==
  { [data_hash |-> "", record_count |-> NoneInt],
    [data_hash |-> "abc123", record_count |-> 380] }

\* (current_data_hash, current_record_count) that detect_data_changes is given
DataArgs ==
  RecordArgs \cup
  { [data_hash |-> "def456", record_count |-> 380],
    [data_hash |-> "abc123", record_count |-> 381],
    [data_hash |-> "def456", record_count |-> 381],
    [data_hash |-> "def456", record_count |-> NoneInt] }

\* how far the clock moves between two operations, in hours
ClockSteps == {24, 25}

\* max_age_hours as callers pass it
MaxAges == {24, 48}

\* days_to_keep as callers pass it
DaysToKeep == {1, 2}

\* s.replace(" ", "_").lower() on the strings of Identities
replace_lower(s) ==
  CASE s = "FBRef" -> "fbref"
    [] s = "Premier League" -> "premier_league"
    [] s = "La Liga" -> "la_liga"
    [] s = "Premier" -> "premier"
    [] s = "League 2023" -> "league_2023"
    [] OTHER -> s

\* f"{source}_{competition}_{season}".replace(" ", "_").lower()
metadata_key(id) ==
  replace_lower(id.source) \o "_" \o replace_lower(id.competition) \o "_"
    \o replace_lower(id.season)

\* datetime.isoformat and datetime.fromisoformat
isoformat(t) == [iso |-> t]

fromisoformat(s) == s.iso

\* a dict as a function on its keys
EmptyDict == << >>

DictPut(d, k, v) == [j \in DOMAIN d \cup {k} |-> IF j = k THEN v ELSE d[j]]

DictDel(d, ks) == [j \in DOMAIN d \ ks |-> d[j]]

\* json.dump and json.load on the values a record holds
JsonNull == [t |-> "null", n |-> 0, s |-> ""]

json_of_int(n) == IF n = NoneInt THEN JsonNull ELSE [t |-> "number", n |-> n, s |-> ""]

json_of_str(s) == IF s = "" THEN JsonNull ELSE [t |-> "string", n |-> 0, s |-> s]

json_of_iso(d) == [t |-> "string", n |-> d.iso, s |-> "iso"]

int_of_json(j) == IF j.t = "null" THEN NoneInt ELSE j.n

str_of_json(j) == IF j.t = "null" THEN "" ELSE j.s

iso_of_json(j) == [iso |-> j.n]

json_dump(metadata) ==
  [k \in DOMAIN metadata |->
     [source |-> json_of_str(metadata[k].source),
      competition |-> json_of_str(metadata[k].competition),
      season |-> json_of_str(metadata[k].season),
      last_fetched |-> json_of_iso(metadata[k].last_fetched),
      data_hash |-> json_of_str(metadata[k].data_hash),
      record_count |-> json_of_int(metadata[k].record_count),
      fetch_count |-> json_of_int(metadata[k].fetch_count)]]

json_load(text) ==
  [k \in DOMAIN text |->
     [source |-> str_of_json(text[k].source),
      competition |-> str_of_json(text[k].competition),
      season |-> str_of_json(text[k].season),
      last_fetched |-> iso_of_json(text[k].last_fetched),
      data_hash |-> str_of_json(text[k].data_hash),
      record_count |-> int_of_json(text[k].record_count),
      fetch_count |-> int_of_json(text[k].fetch_count)]]

\* load_metadata: the file's content, {} when there is no file (an absent
\* file and a file holding {} are both the empty text)
load_metadata(file) == json_load(file)

\* variant: a save that leaves the file empty
save_metadata_not_written(metadata) == json_dump(EmptyDict)

\* save_metadata: the whole dict replaces the file's content
save_metadata(metadata) == json_dump(metadata)

(***************************************************************************)
(* DataFreshnessMonitor: methods                                           *)
(***************************************************************************)
\* self.metadata.get(key, {}).get('fetch_count', 0)
stored_fetch_count(metadata, k) ==
  IF k \in DOMAIN metadata THEN metadata[k].fetch_count ELSE 0

\* record_data_fetch, up to save_metadata: the dict after the assignment
record_data_fetch(metadata, id, data, t) ==
  DictPut(metadata, metadata_key(id),
          [source |-> id.source, competition |-> id.competition, season |-> id.season,
           last_fetched |-> isoformat(t), data_hash |-> data.data_hash,
           record_count |-> data.record_count,
           fetch_count |-> stored_fetch_count(metadata, metadata_key(id)) + 1])

\* variant: data is fresh only while strictly younger than max_age_hours
check_data_freshness_strict(metadata, id, max_age_hours, t) ==
  LET key == metadata_key(id)
  IN  IF key \notin DOMAIN metadata
      THEN [is_fresh |-> FALSE, status |-> "never_fetched", last_fetched |-> NoneInt,
            age_hours |-> NoneInt, recommendation |-> "fetch_data"]
      ELSE LET last_fetched == fromisoformat(metadata[key].last_fetched)
               age_hours == t - last_fetched
               is_fresh == age_hours < max_age_hours
           IN  [is_fresh |-> is_fresh,
                status |-> IF is_fresh THEN "fresh" ELSE "stale",
                last_fetched |-> last_fetched, age_hours |-> age_hours,
                recommendation |-> IF is_fresh THEN "use_cached" ELSE "fetch_new"]

check_data_freshness(metadata, id, max_age_hours, t) ==
  LET key == metadata_key(id)
  IN  IF key \notin DOMAIN metadata
      THEN [is_fresh |-> FALSE, status |-> "never_fetched", last_fetched |-> NoneInt,
            age_hours |-> NoneInt, recommendation |-> "fetch_data"]
      ELSE LET last_fetched == fromisoformat(metadata[key].last_fetched)
               age_hours == t - last_fetched
               is_fresh == age_hours <= max_age_hours
           IN  [is_fresh |-> is_fresh,
                status |-> IF is_fresh THEN "fresh" ELSE "stale",
                last_fetched |-> last_fetched, age_hours |-> age_hours,
                recommendation |-> IF is_fresh THEN "use_cached" ELSE "fetch_new"]

\* variant: a count counts as changed as soon as the two values differ
detect_data_changes_none_counts(metadata, id, current) ==
  LET key == metadata_key(id)
  IN  IF key \notin DOMAIN metadata
      THEN [has_changed |-> TRUE, change_type |-> "new_data"]
      ELSE LET hash_changed == metadata[key].data_hash # current.data_hash
               count_changed == metadata[key].record_count # current.record_count
               has_changed == hash_changed \/ count_changed
           IN  [has_changed |-> has_changed,
                change_type |->
                  IF has_changed
                  THEN IF hash_changed /\ count_changed THEN "content_and_count_changed"
                       ELSE IF hash_changed THEN "content_changed"
                       ELSE IF count_changed THEN "count_changed"
                       ELSE "unknown_change"
                  ELSE "no_change"]

detect_data_changes(metadata, id, current) ==
  LET key == metadata_key(id)
  IN  IF key \notin DOMAIN metadata
      THEN [has_changed |-> TRUE, change_type |-> "new_data"]
      ELSE LET previous_hash == metadata[key].data_hash
               previous_count == metadata[key].record_count
               hash_changed == previous_hash # current.data_hash
               count_changed == /\ previous_count # NoneInt
                                /\ current.record_count # NoneInt
                                /\ previous_count # current.record_count
               has_changed == hash_changed \/ count_changed
           IN  [has_changed |-> has_changed,
                change_type |->
                  IF has_changed
                  THEN IF hash_changed /\ count_changed THEN "content_and_count_changed"
                       ELSE IF hash_changed THEN "content_changed"
                       ELSE IF count_changed THEN "count_changed"
                       ELSE "unknown_change"
                  ELSE "no_change"]

\* variant: a record counts as stale from max_age_hours on
get_stale_data_report_from_max_age(metadata, max_age_hours, t) ==
  LET stale == { k \in DOMAIN metadata :
                   t - fromisoformat(metadata[k].last_fetched) >= max_age_hours }
      fresh == DOMAIN metadata \ stale
  IN  [stale_sources |-> stale, fresh_sources |-> fresh,
       stale_count |-> Cardinality(stale), fresh_count |-> Cardinality(fresh),
       total_sources |-> Cardinality(stale) + Cardinality(fresh)]

\* get_stale_data_report: the keys of the two lists and the three counts
get_stale_data_report(metadata, max_age_hours, t) ==
  LET stale == { k \in DOMAIN metadata :
                   t - fromisoformat(metadata[k].last_fetched) > max_age_hours }
      fresh == DOMAIN metadata \ stale
  IN  [stale_sources |-> stale, fresh_sources |-> fresh,
       stale_count |-> Cardinality(stale), fresh_count |-> Cardinality(fresh),
       total_sources |-> Cardinality(stale) + Cardinality(fresh)]

\* cleanup_old_metadata: the keys it removes
keys_to_remove(metadata, days_to_keep, t) ==
  { k \in DOMAIN metadata :
      fromisoformat(metadata[k].last_fetched) < t - days_to_keep * HoursPerDay }

(***************************************************************************)
(* DataFreshnessMonitor: one monitor object used by one thread             *)
(***************************************************************************)
MetadataKeys == { metadata_key(id) : id \in Identities }

\* the sum of a count kept per key
RECURSIVE SumOver(_, _)
SumOver(f, ks) ==
  IF ks = {} THEN 0
  ELSE LET k == CHOOSE x \in ks : TRUE IN f[k] + SumOver(f, ks \ {k})

NoArgs == [id |-> NoIdentity, data |-> [data_hash |-> "", record_count |-> NoneInt]]

NoOut == [is_fresh |-> FALSE]

NoRet == [op |-> "", id |-> NoIdentity, data |-> NoArgs.data, arg |-> 0,
          at |-> 0, before |-> 0, out |-> NoOut]

InitMonitor ==
  /\ m_file = json_dump(EmptyDict)
  /\ m_mem = [w \in Workers |-> EmptyDict]
  /\ m_pc = [w \in Workers |-> "none"]
  /\ m_args = [w \in Workers |-> NoArgs]
  /\ m_clock = 0
  /\ m_ret = NoRet
  /\ m_high = [k \in MetadataKeys |-> 0]
  /\ m_calls = [k \in MetadataKeys |-> 0]

\* DataFreshnessMonitor(cache_dir): a new object, loaded from the file
Construct ==
  /\ m_pc[Main] \in {"none", "ready"}
  /\ m_mem' = [m_mem EXCEPT ![Main] = load_metadata(m_file)]
  /\ m_pc' = [m_pc EXCEPT ![Main] = "ready"]
  /\ m_ret' = IF m_ret.op = "record" THEN [m_ret EXCEPT !.op = "construct_after_record"]
               ELSE [NoRet EXCEPT !.op = "construct"]
  /\ UNCHANGED << m_file, m_args, m_clock, m_high, m_calls >>
  /\ UNCHANGED not_monitor_vars

\* DataFreshnessMonitor(cache_dir) while the file cannot be read or parsed
\* (open or json.load raises): the except clause of load_metadata leaves the
\* object with an empty dict; the file itself is as it was (a file that
\* does not exist does not fail: it is the empty text)
ConstructLoadFails ==
  /\ m_pc[Main] \in {"none", "ready"}
  /\ m_file # json_dump(EmptyDict)
  /\ m_mem' = [m_mem EXCEPT ![Main] = EmptyDict]
  /\ m_pc' = [m_pc EXCEPT ![Main] = "ready"]
  /\ m_ret' = [NoRet EXCEPT !.op = "construct_load_failed"]
  /\ UNCHANGED << m_file, m_args, m_clock, m_high, m_calls >>
  /\ UNCHANGED not_monitor_vars

\* monitor.record_data_fetch(source, competition, season, data_hash, record_count)
RecordDataFetch ==
  /\ m_pc[Main] = "ready"
  /\ \E id \in Identities, data \in RecordArgs :
       LET key == metadata_key(id)
           metadata == record_data_fetch(m_mem[Main], id, data, m_clock)
       IN  /\ stored_fetch_count(m_mem[Main], key) < MaxFetches
           /\ m_mem' = [m_mem EXCEPT ![Main] = metadata]
           /\ m_file' = save_metadata(metadata)
           /\ m_high' = [m_high EXCEPT ![key] =
                           IF metadata[key].fetch_count > @
                           THEN metadata[key].fetch_count ELSE @]
           /\ m_ret' = [op |-> "record", id |-> id, data |-> data,
                        arg |-> 0, at |-> m_clock,
                        before |-> stored_fetch_count(m_mem[Main], key), out |-> NoOut]
  /\ UNCHANGED << m_pc, m_args, m_clock, m_calls >>
  /\ UNCHANGED not_monitor_vars

\* monitor.check_data_freshness(source, competition, season, max_age_hours)
CheckDataFreshness ==
  /\ m_pc[Main] = "ready"
  /\ \E id \in Identities, a \in MaxAges :
       m_ret' = [op |-> "check", id |-> id, data |-> NoArgs.data,
                 arg |-> a, at |-> m_clock, before |-> 0,
                 out |-> check_data_freshness(m_mem[Main], id, a, m_clock)]
  /\ UNCHANGED << m_file, m_mem, m_pc, m_args, m_clock, m_high, m_calls >>
  /\ UNCHANGED not_monitor_vars

\* monitor.detect_data_changes(source, competition, season, hash, count)
DetectDataChanges ==
  /\ m_pc[Main] = "ready"
  /\ \E id \in Identities, data \in DataArgs :
       m_ret' = [op |-> "detect", id |-> id, data |-> data,
                 arg |-> 0, at |-> m_clock, before |-> 0,
                 out |-> detect_data_changes(m_mem[Main], id, data)]
  /\ UNCHANGED << m_file, m_mem, m_pc, m_args, m_clock, m_high, m_calls >>
  /\ UNCHANGED not_monitor_vars

\* variant: the report drops the records it lists as stale
GetStaleDataReport_dropping_stale ==
  /\ m_pc[Main] = "ready"
  /\ \E a \in MaxAges :
       LET out == get_stale_data_report(m_mem[Main], a, m_clock)
       IN  /\ m_ret' = [op |-> "report", id |-> NoIdentity,
                        data |-> NoArgs.data, arg |-> a, at |-> m_clock, before |-> 0,
                        out |-> out]
           /\ m_mem' = [m_mem EXCEPT ![Main] = DictDel(@, out.stale_sources)]
  /\ UNCHANGED << m_file, m_pc, m_args, m_clock, m_high, m_calls >>
  /\ UNCHANGED not_monitor_vars

\* monitor.get_stale_data_report(max_age_hours)
GetStaleDataReport ==
  /\ m_pc[Main] = "ready"
  /\ \E a \in MaxAges :
       m_ret' = [op |-> "report", id |-> NoIdentity,
                 data |-> NoArgs.data, arg |-> a, at |-> m_clock, before |-> 0,
                 out |-> get_stale_data_report(m_mem[Main], a, m_clock)]
  /\ UNCHANGED << m_file, m_mem, m_pc, m_args, m_clock, m_high, m_calls >>
  /\ UNCHANGED not_monitor_vars

\* monitor.cleanup_old_metadata(days_to_keep)
CleanupOldMetadata ==
  /\ m_pc[Main] = "ready"
  /\ \E d \in DaysToKeep :
       LET removed == keys_to_remove(m_mem[Main], d, m_clock)
           metadata == DictDel(m_mem[Main], removed)
       IN  /\ m_mem' = [m_mem EXCEPT ![Main] = metadata]
           /\ m_file' = IF removed # {} THEN save_metadata(metadata) ELSE m_file
           /\ m_ret' = [op |-> "cleanup", id |-> NoIdentity,
                        data |-> NoArgs.data, arg |-> d, at |-> m_clock,
                        before |-> Cardinality(removed), out |-> NoOut]
  /\ UNCHANGED << m_pc, m_args, m_clock, m_high, m_calls >>
  /\ UNCHANGED not_monitor_vars

\* time passes between two operations
Tick ==
  /\ \E d \in ClockSteps :
       /\ m_clock + d <= MaxClock
       /\ m_clock' = m_clock + d
  /\ m_ret' = NoRet
  /\ UNCHANGED << m_file, m_mem, m_pc, m_args, m_high, m_calls >>
  /\ UNCHANGED not_monitor_vars

(***************************************************************************)
(* record_data_fetch of the module, called by two workers on one cache     *)
(* directory: the steps of one call, which other calls may come between    *)
(***************************************************************************)
TotalCalls == SumOver(m_calls, MetadataKeys)

\* record_data_fetch(source, competition, season, df, cache_dir) is called
WorkerCall(w) ==
  /\ m_pc[w] = "none"
  /\ \E id \in Identities, data \in RecordArgs :
       /\ TotalCalls < MaxCalls
       /\ m_calls' = [m_calls EXCEPT ![metadata_key(id)] = @ + 1]
       /\ m_args' = [m_args EXCEPT ![w] = [id |-> id, data |-> data]]
  /\ m_pc' = [m_pc EXCEPT ![w] = "called"]
  /\ UNCHANGED << m_file, m_mem, m_clock, m_ret, m_high >>
  /\ UNCHANGED not_monitor_vars

\* monitor = DataFreshnessMonitor(cache_dir=cache_dir): load_metadata
WorkerConstruct(w) ==
  /\ m_pc[w] = "called"
  /\ m_mem' = [m_mem EXCEPT ![w] = load_metadata(m_file)]
  /\ m_pc' = [m_pc EXCEPT ![w] = "constructed"]
  /\ UNCHANGED << m_file, m_args, m_clock, m_ret, m_high, m_calls >>
  /\ UNCHANGED not_monitor_vars

\* monitor.record_data_fetch: self.metadata[key] = {...}
WorkerAssign(w) ==
  /\ m_pc[w] = "constructed"
  /\ m_mem' = [m_mem EXCEPT ![w] =
                 record_data_fetch(@, m_args[w].id, m_args[w].data, m_clock)]
  /\ m_pc' = [m_pc EXCEPT ![w] = "assigned"]
  /\ UNCHANGED << m_file, m_args, m_clock, m_ret, m_high, m_calls >>
  /\ UNCHANGED not_monitor_vars

\* monitor.record_data_fetch: self.save_metadata(), and the call returns
WorkerSave(w) ==
  /\ m_pc[w] = "assigned"
  /\ m_file' = save_metadata(m_mem[w])
  /\ m_pc' = [m_pc EXCEPT ![w] = "none"]
  /\ m_mem' = [m_mem EXCEPT ![w] = EmptyDict]
  /\ m_args' = [m_args EXCEPT ![w] = NoArgs]
  /\ UNCHANGED << m_clock, m_ret, m_high, m_calls >>
  /\ UNCHANGED not_monitor_vars

(***************************************************************************)
(* DataQualityTrend                                                        *)
(***************************************************************************)
\* the longest history record_quality_metrics keeps
HistoryCap == 100

\* completeness is a float; the model counts it in halves (1.0 is 2)
Halves == 2

\* the metrics of the n-th call for a key: callers pass values that tell the
\* calls apart
Metrics(n) == [error_count |-> n, warning_count |-> 0, completeness |-> Halves]

\* the calls whose trend is asked for: at most this many per run
MaxPoints == 4

\* metrics as a validation run yields them: no findings, one error, two
\* warnings on a half-complete season
QualityMetrics ==
  { [error_count |-> 0, warning_count |-> 0, completeness |-> Halves],
    [error_count |-> 1, warning_count |-> 0, completeness |-> Halves],
    [error_count |-> 0, warning_count |-> 2, completeness |-> 1] }

\* days_back as callers pass it
DaysBack == {1, 30}

\* {'timestamp': datetime.now().isoformat(), **metrics}
metrics_with_timestamp(metrics, t) ==
  [timestamp |-> isoformat(t), error_count |-> metrics.error_count,
   warning_count |-> metrics.warning_count, completeness |-> metrics.completeness]

\* json.dump and json.load of the trends dict
json_dump_trends(trends) ==
  [k \in DOMAIN trends |->
     [source |-> json_of_str(trends[k].source),
      competition |-> json_of_str(trends[k].competition),
      season |-> json_of_str(trends[k].season),
      history |-> [i \in 1..Len(trends[k].history) |->
                     [timestamp |-> json_of_iso(trends[k].history[i].timestamp),
                      error_count |-> json_of_int(trends[k].history[i].error_count),
                      warning_count |-> json_of_int(trends[k].history[i].warning_count),
                      completeness |-> json_of_int(trends[k].history[i].completeness)]]]]

json_load_trends(text) ==
  [k \in DOMAIN text |->
     [source |-> str_of_json(text[k].source),
      competition |-> str_of_json(text[k].competition),
      season |-> str_of_json(text[k].season),
      history |-> [i \in 1..Len(text[k].history) |->
                     [timestamp |-> iso_of_json(text[k].history[i].timestamp),
                      error_count |-> int_of_json(text[k].history[i].error_count),
                      warning_count |-> int_of_json(text[k].history[i].warning_count),
                      completeness |-> int_of_json(text[k].history[i].completeness)]]]]

load_trends(file) == json_load_trends(file)

save_trends(trends) == json_dump_trends(trends)

\* variant: the history is cut to its first entries
keep_last_entries_keeps_first(history) ==
  IF Len(history) > HistoryCap THEN SubSeq(history, 1, HistoryCap) ELSE history

\* if len(history) > 100: history = history[-100:]
keep_last_entries(history) ==
  IF Len(history) > HistoryCap
  THEN SubSeq(history, Len(history) - HistoryCap + 1, Len(history))
  ELSE history

\* record_quality_metrics, up to save_trends: the dict after the call
record_quality_metrics(trends, id, metrics, t) ==
  LET key == metadata_key(id)
      known == IF key \in DOMAIN trends THEN trends
               ELSE DictPut(trends, key,
                            [source |-> id.source, competition |-> id.competition,
                             season |-> id.season, history |-> << >>])
  IN  [known EXCEPT ![key].history =
         keep_last_entries(Append(@, metrics_with_timestamp(metrics, t)))]

\* the sums of _calculate_trend, each times n (x_mean and y_mean are sums
\* divided by n): n * (x[i] - x_mean) is n * x[i] - sum(x)
RECURSIVE SumTo(_, _)
SumTo(f(_), n) == IF n = 0 THEN 0 ELSE f(n) + SumTo(f, n - 1)

Abs(a) == IF a < 0 THEN 0 - a ELSE a

\* _calculate_trend on values counted in 1/unit: slope = numerator /
\* denominator, and abs(slope) < 0.1 is 10 * |numerator| < unit * denominator
\* (both sums carry the same factor n * n)
_calculate_trend(values, unit) ==
  LET n == Len(values)
      sum_x == SumTo(LAMBDA i : i - 1, n)
      sum_y == SumTo(LAMBDA i : values[i], n)
      numerator == SumTo(LAMBDA i : (n * (i - 1) - sum_x) * (n * values[i] - sum_y), n)
      denominator == SumTo(LAMBDA i : (n * (i - 1) - sum_x) * (n * (i - 1) - sum_x), n)
  IN  IF n < 2 THEN "insufficient_data"
      ELSE IF denominator = 0 THEN "stable"
      ELSE IF 10 * Abs(numerator) < unit * denominator THEN "stable"
      ELSE IF numerator > 0 THEN "increasing"
      ELSE "decreasing"

\* the entries of the history that are not older than the cutoff
recent_entries(history, cutoff_date) ==
  SelectSeq(history, LAMBDA entry : fromisoformat(entry.timestamp) >= cutoff_date)

NoTrendAnalysis ==
  [data_points |-> 0, error_trend |-> "", warning_trend |-> "", completeness_trend |-> ""]

\* get_quality_trend: status and the trends of the three metrics
get_quality_trend(trends, id, days_back, t) ==
  LET key == metadata_key(id)
      cutoff_date == t - days_back * HoursPerDay
      recent_history ==
        IF key \in DOMAIN trends THEN recent_entries(trends[key].history, cutoff_date)
        ELSE << >>
      of(field) == [i \in 1..Len(recent_history) |-> recent_history[i][field]]
  IN  IF key \notin DOMAIN trends
      THEN [status |-> "no_data", recent_history |-> << >>, trend |-> NoTrendAnalysis]
      ELSE IF recent_history = << >>
      THEN [status |-> "no_recent_data", recent_history |-> << >>,
            trend |-> NoTrendAnalysis]
      ELSE [status |-> "analyzed", recent_history |-> recent_history,
            trend |-> [data_points |-> Len(recent_history),
                       error_trend |-> _calculate_trend(of("error_count"), 1),
                       warning_trend |-> _calculate_trend(of("warning_count"), 1),
                       completeness_trend |->
                         _calculate_trend(of("completeness"), Halves)]]

NoTrend == [id |-> NoIdentity, days_back |-> 0, at |-> 0,
            out |-> [status |-> "", recent_history |-> << >>, trend |-> NoTrendAnalysis]]

InitTrend ==
  /\ t_file = json_dump_trends(EmptyDict)
  /\ t_trends = EmptyDict
  /\ t_pc = "none"
  /\ t_count = [k \in MetadataKeys |-> 0]
  /\ t_ret = NoTrend

\* DataQualityTrend(cache_dir): a new object, loaded from the file
TrendConstruct ==
  /\ t_trends' = load_trends(t_file)
  /\ t_pc' = "ready"
  /\ t_ret' = NoTrend
  /\ UNCHANGED << t_file, t_count >>
  /\ UNCHANGED not_trend_vars

\* tracker.record_quality_metrics(source, competition, season, metrics), the
\* n-th call for a key passing one of metrics_of[n]
RecordQualityMetricsWith(metrics_of, max_calls) ==
  /\ t_pc = "ready"
  /\ SumOver(t_count, MetadataKeys) < max_calls
  /\ \E id \in Identities :
       LET key == metadata_key(id)
       IN  \E metrics \in metrics_of[t_count[key] + 1] :
             LET trends == record_quality_metrics(t_trends, id, metrics, m_clock)
             IN  /\ t_trends' = trends
                 /\ t_file' = save_trends(trends)
                 /\ t_count' = [t_count EXCEPT ![key] = @ + 1]
  /\ t_ret' = NoTrend
  /\ UNCHANGED t_pc
  /\ UNCHANGED not_trend_vars

MetricsOfCall == [n \in 1..MaxTrendCalls |-> { Metrics(n) }]

\* calls that pass metrics which tell the calls apart
RecordQualityMetrics == RecordQualityMetricsWith(MetricsOfCall, MaxTrendCalls)

AnyQualityMetrics == [n \in 1..MaxPoints |-> QualityMetrics]

\* calls that pass the metrics of validation runs
RecordValidationMetrics == RecordQualityMetricsWith(AnyQualityMetrics, MaxPoints)

\* tracker.get_quality_trend(source, competition, season, days_back)
GetQualityTrend ==
  /\ t_pc = "ready"
  /\ \E id \in Identities, days_back \in DaysBack :
       t_ret' = [id |-> id, days_back |-> days_back, at |-> m_clock,
                 out |-> get_quality_trend(t_trends, id, days_back, m_clock)]
  /\ UNCHANGED << t_file, t_trends, t_pc, t_count >>
  /\ UNCHANGED not_trend_vars

(***************************************************************************)
(* DataQualityValidator: values                                            *)
(***************************************************************************)
\* a team name that is missing (np.nan) and one of white space only
MissingName == "NaN"

WhitespaceName == "  "

\* rows of a fixtures table handed to the validator: those a provider may
\* deliver, a row with an unusually high score, a row with an empty team
\* name and no date, a row without a home team name, a row whose away team
\* name is white space and a return match played before the season
FixtureRows ==
  RowTable \o
  << [date |-> 2, team_home |-> "Chelsea", team_away |-> "Arsenal",
      goals_home |-> 15, goals_away |-> 1],
     [date |-> NaT, team_home |-> "", team_away |-> "Chelsea",
      goals_home |-> 1, goals_away |-> 1],
     [date |-> 2, team_home |-> MissingName, team_away |-> "Chelsea",
      goals_home |-> 1, goals_away |-> 1],
     [date |-> 2, team_home |-> "Arsenal", team_away |-> WhitespaceName,
      goals_home |-> 2, goals_away |-> 0],
     [date |-> 2, team_home |-> "Chelsea", team_away |-> "Arsenal",
      goals_home |-> 1, goals_away |-> 1] >>

FixtureColumnSets ==
  { AllColumns, AllColumns \ {"date"}, AllColumns \ {"goals_away"} }

\* a table without a column has no values of it in its rows
FixtureCells(r, cols) ==
  [date |-> IF "date" \in cols THEN r.date ELSE NaT,
   team_home |-> r.team_home, team_away |-> r.team_away,
   goals_home |-> r.goals_home,
   goals_away |-> IF "goals_away" \in cols THEN r.goals_away ELSE NA]

Fixtures ==
  UNION { { [columns |-> c, rows |-> [i \in 1..n |-> FixtureCells(FixtureRows[f[i]], c)]] :
              c \in FixtureColumnSets, f \in [1..n -> 1..Len(FixtureRows)] } :
          n \in 0..MaxFixtureRows }

\* the season argument: none, one without "-" and one with a range
Seasons == {"", "2023", "2023-2024"}

\* season and "-" in season
HasRange(season) == season = "2023-2024"

\* datetime(start_year, 7, 1) and datetime(end_year, 6, 30) of a season
\* "a-b", as instants
SeasonRange(season) == [expected_start |-> 3, expected_end |-> 5]

\* timedelta(days=365 * 20), in instants
TwentyYears == 365 * 20 * 2

required_cols == << "team_home", "team_away", "goals_home", "goals_away" >>

suspicious_patterns == << "test", "unknown", "tbd", "null", "nan" >>

\* the suspicious patterns the lowered name contains
SuspiciousIn(team) == IF team = "Test FC" THEN {"test"} ELSE {}

Finding(level, code) == [level |-> level, code |-> code]

\* the finding, when the condition of its if statement holds
When(cond, level, code) == IF cond THEN << Finding(level, code) >> ELSE << >>

RowsOf(df) == 1..Len(df.rows)

\* the sequences f(1), ..., f(n) one after the other
RECURSIVE SumSeq(_, _)
SumSeq(f(_), n) == IF n = 0 THEN << >> ELSE SumSeq(f, n - 1) \o f(n)

\* the values of a goals column that pd.to_numeric leaves as numbers
NumericGoals(df, col) == { i \in RowsOf(df) : df.rows[i][col] # NA }

RECURSIVE SumGoals(_, _, _)
SumGoals(df, col, is) ==
  IF is = {} THEN 0
  ELSE LET i == CHOOSE x \in is : TRUE
       IN  df.rows[i][col] + SumGoals(df, col, is \ {i})

(***************************************************************************)
(* DataQualityValidator: the checks, each as the findings it produces, in  *)
(* the order of its _add_error, _add_warning and _add_info calls           *)
(***************************************************************************)
\* df[col].str of a column that holds no string: a column of np.nan alone is
\* a float64 column, and its .str accessor raises AttributeError
str_accessor_raises(df, col) == \A i \in RowsOf(df) : df.rows[i][col] = MissingName

\* df[col].isna() | (df[col] == "") | (df[col].str.strip() == "")
empty_teams(df, col) ==
  { i \in RowsOf(df) : df.rows[i][col] \in {MissingName, "", WhitespaceName} }

team_name_findings(df, col) ==
  When(empty_teams(df, col) # {}, "error", "empty_team_names_" \o col)
  \o When(\E i \in RowsOf(df) : suspicious_patterns[1] \in SuspiciousIn(df.rows[i][col]),
          "warning", "suspicious_team_names_" \o col)
  \o When(\E i \in RowsOf(df) : suspicious_patterns[2] \in SuspiciousIn(df.rows[i][col]),
          "warning", "suspicious_team_names_" \o col)
  \o When(\E i \in RowsOf(df) : suspicious_patterns[3] \in SuspiciousIn(df.rows[i][col]),
          "warning", "suspicious_team_names_" \o col)
  \o When(\E i \in RowsOf(df) : suspicious_patterns[4] \in SuspiciousIn(df.rows[i][col]),
          "warning", "suspicious_team_names_" \o col)
  \o When(\E i \in RowsOf(df) : suspicious_patterns[5] \in SuspiciousIn(df.rows[i][col]),
          "warning", "suspicious_team_names_" \o col)

_validate_team_names(df) ==
  LET home_teams == { df.rows[i].team_home : i \in RowsOf(df) } \ {MissingName}
      away_teams == { df.rows[i].team_away : i \in RowsOf(df) } \ {MissingName}
  IN  IF str_accessor_raises(df, "team_home")
      THEN << Finding("exception", "AttributeError") >>
      ELSE IF str_accessor_raises(df, "team_away")
      THEN team_name_findings(df, "team_home")
           \o << Finding("exception", "AttributeError") >>
      ELSE team_name_findings(df, "team_home")
           \o team_name_findings(df, "team_away")
           \o When(home_teams \ away_teams # {}, "warning", "home_only")
           \o When(away_teams \ home_teams # {}, "warning", "away_only")
           \o << Finding("info", "unique_teams") >>

goal_findings(df, col) ==
  LET numeric == NumericGoals(df, col)
      total == SumGoals(df, col, numeric)
      count == Cardinality(numeric)
  IN  When(\E i \in numeric : df.rows[i][col] < 0, "error", "negative_" \o col)
      \o When(\E i \in numeric : df.rows[i][col] > 10, "warning", "high_scores_" \o col)
      \o When(count > 0 /\ (2 * total < count \/ total > 5 * count),
              "warning", "unusual_average_" \o col)

_validate_goals(df) == goal_findings(df, "goals_home") \o goal_findings(df, "goals_away")

_validate_dates(df, season, current) ==
  LET valid_dates == { df.rows[i].date : i \in { j \in RowsOf(df) : df.rows[j].date # NaT } }
  IN  When(\E i \in RowsOf(df) : df.rows[i].date = NaT, "warning", "missing_dates")
      \o IF valid_dates = {} THEN << >>
         ELSE << Finding("info", "date_range") >>
              \o When(\E d \in valid_dates : d > current, "warning", "future_dates")
              \o When(\E d \in valid_dates : d < current - TwentyYears,
                      "warning", "old_dates")
              \o When(/\ HasRange(season)
                      /\ \E d \in valid_dates :
                           \/ d < SeasonRange(season).expected_start
                           \/ d > SeasonRange(season).expected_end,
                      "warning_in_try", "outside_season")

_check_duplicates(df) ==
  When(\E i \in RowsOf(df), j \in RowsOf(df) : i < j /\ df.rows[i] = df.rows[j],
       "warning", "duplicate_rows")
  \o When(\E i \in RowsOf(df), j \in RowsOf(df) :
            /\ i < j
            /\ df.rows[i].team_home = df.rows[j].team_home
            /\ df.rows[i].team_away = df.rows[j].team_away
            /\ df.rows[i].date = df.rows[j].date,
          "warning", "duplicate_fixtures")
  \o When(/\ "date" \in df.columns
          /\ \E i \in RowsOf(df), j \in RowsOf(df) :
               /\ df.rows[i].team_home = df.rows[j].team_away
               /\ df.rows[i].team_away = df.rows[j].team_home
               /\ df.rows[i].date = df.rows[j].date,
          "warning", "reverse_fixture_conflicts")

\* variant: the goal patterns are checked and self matches are not
_validate_data_consistency_goal_patterns_only(df) ==
  LET both == { i \in RowsOf(df) : df.rows[i].goals_home # NA /\ df.rows[i].goals_away # NA }
      many == Len(df.rows) > 10 /\ both = RowsOf(df)
  IN  When(many /\ \A i \in both : df.rows[i].goals_home > df.rows[i].goals_away,
           "warning", "all_home_wins")
      \o When(many /\ \A i \in both : df.rows[i].goals_away > df.rows[i].goals_home,
              "warning", "all_away_wins")
      \o When(many /\ \A i \in both : df.rows[i].goals_home = df.rows[i].goals_away,
              "warning", "all_draws")

_validate_data_consistency(df) ==
  LET both == { i \in RowsOf(df) : df.rows[i].goals_home # NA /\ df.rows[i].goals_away # NA }
      many == Len(df.rows) > 10 /\ both = RowsOf(df)
  IN  When(\E i \in RowsOf(df) : /\ df.rows[i].team_home = df.rows[i].team_away
                                   /\ df.rows[i].team_home # MissingName,
           "error", "teams_play_themselves")
      \o When(many /\ \A i \in both : df.rows[i].goals_home > df.rows[i].goals_away,
              "warning", "all_home_wins")
      \o When(many /\ \A i \in both : df.rows[i].goals_away > df.rows[i].goals_home,
              "warning", "all_away_wins")
      \o When(many /\ \A i \in both : df.rows[i].goals_home = df.rows[i].goals_away,
              "warning", "all_draws")

\* expected_matches_per_team.get(n_teams, n_teams * 2 - 2)
expected_matches_per_team(n_teams) ==
  CASE n_teams = 20 -> 38
    [] n_teams = 18 -> 34
    [] n_teams = 16 -> 30
    [] n_teams = 14 -> 26
    [] n_teams = 12 -> 22
    [] n_teams = 10 -> 18
    [] OTHER -> n_teams * 2 - 2

_check_season_completeness(df) ==
  LET teams == { df.rows[i].team_home : i \in RowsOf(df) }
                 \cup { df.rows[i].team_away : i \in RowsOf(df) }
      n_teams == Cardinality(teams)
      n_matches == Len(df.rows)
      expected_total == (n_teams * expected_matches_per_team(n_teams)) \div 2
  IN  << Finding("info", "season_completeness") >>
      \o (IF expected_total = 0 \/ 10 * n_matches < 8 * expected_total
          THEN << Finding("warning", "season_incomplete") >>
          ELSE When(10 * n_matches > 12 * expected_total, "warning", "more_matches"))

\* the first lines of validate_fixtures_data: the two conditions under which
\* it returns before any check
gate_findings(df) ==
  IF Len(df.rows) = 0 THEN << Finding("error", "empty_dataframe") >>
  ELSE << Finding("info", "validating") >>
       \o When(\E i \in 1..Len(required_cols) : required_cols[i] \notin df.columns,
               "error", "missing_required_columns")

\* the checks validate_fixtures_data calls, in its order
CheckOrder ==
  << "team_names", "goals", "dates", "duplicates", "consistency", "completeness" >>

\* whether validate_fixtures_data calls the check at all
Applies(check, df, season) ==
  CASE check = "dates" -> "date" \in df.columns
    [] check = "completeness" -> season # ""
    [] OTHER -> TRUE

FindingsOf(check, df, season, current) ==
  CASE check = "team_names" -> _validate_team_names(df)
    [] check = "goals" -> _validate_goals(df)
    [] check = "dates" -> _validate_dates(df, season, current)
    [] check = "duplicates" -> _check_duplicates(df)
    [] check = "consistency" -> _validate_data_consistency(df)
    [] check = "completeness" -> _check_season_completeness(df)

(***************************************************************************)
(* DataQualityValidator: the report and the run                            *)
(***************************************************************************)
\* reset_report
EmptyReport == [errors |-> << >>, warnings |-> << >>, info |-> << >>]

\* _add_error and _add_warning raise DataValidationError in strict mode; the
\* one _add_warning called inside `try: ... except ValueError: pass` (level
\* "warning_in_try") raises it into that except clause, DataValidationError
\* being a ValueError, and the check goes on
escalates(strict_mode, level) == strict_mode /\ level \in {"error", "warning"}

\* _add_error, _add_warning, _add_info: the list the message is appended to
add_finding(report, f) ==
  CASE f.level = "error" -> [report EXCEPT !.errors = Append(@, f.code)]
    [] f.level \in {"warning", "warning_in_try"} ->
         [report EXCEPT !.warnings = Append(@, f.code)]
    [] OTHER -> [report EXCEPT !.info = Append(@, f.code)]

\* the calls a check makes, one after the other, until one of them raises
RECURSIVE add_findings(_, _, _)
add_findings(report, strict_mode, fs) ==
  IF fs = << >> THEN [report |-> report, raised |-> ""]
  ELSE IF Head(fs).level = "exception"
       THEN [report |-> report, raised |-> Head(fs).code]
  ELSE IF escalates(strict_mode, Head(fs).level)
       THEN [report |-> add_finding(report, Head(fs)), raised |-> "DataValidationError"]
       ELSE add_findings(add_finding(report, Head(fs)), strict_mode, Tail(fs))

\* the check that follows the given position of CheckOrder, or "done"
RECURSIVE NextCheck(_, _, _)
NextCheck(n, df, season) ==
  IF n >= Len(CheckOrder) THEN "done"
  ELSE IF Applies(CheckOrder[n + 1], df, season) THEN CheckOrder[n + 1]
  ELSE NextCheck(n + 1, df, season)

PositionOf(check) == CHOOSE n \in 1..Len(CheckOrder) : CheckOrder[n] = check

InitValidator ==
  /\ v_pc = "idle"
  /\ v_strict = FALSE
  /\ v_df = EmptyDataFrame
  /\ v_season = ""
  /\ v_now = 0
  /\ v_report = EmptyReport
  /\ v_ret = "pending"
  /\ v_ran = << >>

\* DataQualityValidator(strict_mode).validate_fixtures_data(df, competition,
\* season), up to the first check: reset_report and the two early returns
ValidateFixturesData ==
  /\ v_pc = "idle"
  /\ \E strict \in BOOLEAN, df \in Fixtures, season \in Seasons, current \in Nows :
       LET r == add_findings(EmptyReport, strict, gate_findings(df))
       IN  /\ v_strict' = strict
           /\ v_df' = df
           /\ v_season' = season
           /\ v_now' = current
           /\ v_report' = r.report
           /\ v_pc' = IF r.raised # "" THEN "raised"
                      ELSE IF r.report.errors # << >> THEN "returned"
                      ELSE NextCheck(0, df, season)
           /\ v_ret' = IF r.raised # "" THEN r.raised
                       ELSE IF r.report.errors # << >> THEN "report"
                       ELSE "pending"
  /\ v_ran' = << >>
  /\ UNCHANGED not_validator_vars

\* one of the checks of validate_fixtures_data, from its first call of
\* _add_error, _add_warning or _add_info to its last or to the one that raises
RunCheck ==
  /\ v_pc \in { CheckOrder[n] : n \in 1..Len(CheckOrder) }
  /\ LET r == add_findings(v_report, v_strict, FindingsOf(v_pc, v_df, v_season, v_now))
     IN  /\ v_report' = r.report
         /\ v_pc' = IF r.raised # "" THEN "raised"
                    ELSE NextCheck(PositionOf(v_pc), v_df, v_season)
         /\ v_ret' = IF r.raised # "" THEN r.raised ELSE "pending"
  /\ v_ran' = Append(v_ran, v_pc)
  /\ UNCHANGED << v_strict, v_df, v_season, v_now >>
  /\ UNCHANGED not_validator_vars

\* return self.validation_report
ReturnReport ==
  /\ v_pc = "done"
  /\ v_pc' = "returned"
  /\ v_ret' = "report"
  /\ UNCHANGED << v_strict, v_df, v_season, v_now, v_report, v_ran >>
  /\ UNCHANGED not_validator_vars

(***************************************************************************)
(* DataQualityValidator.cross_validate_sources                             *)
(***************************************************************************)
MaxSourceRows == 2

\* the matches two sources may report: one result, the same match with
\* another away score, a fixture that has no result yet, and the first
\* result on another date
SourceRows ==
  << [date |-> 2, team_home |-> "Arsenal", team_away |-> "Chelsea",
      goals_home |-> 2, goals_away |-> 1],
     [date |-> 2, team_home |-> "Arsenal", team_away |-> "Chelsea",
      goals_home |-> 2, goals_away |-> 2],
     [date |-> 5, team_home |-> "Chelsea", team_away |-> "Arsenal",
      goals_home |-> NA, goals_away |-> NA],
     [date |-> 6, team_home |-> "Arsenal", team_away |-> "Chelsea",
      goals_home |-> 2, goals_away |-> 1] >>

\* the tables of a source: with its dates parsed (datetime64), with its dates
\* left as text (object), without a date column, without the away goals
SourceTables ==
  UNION { { [columns |-> c.columns, date_dtype |-> c.date_dtype,
             rows |-> [i \in 1..n |-> FixtureCells(SourceRows[f[i]], c.columns)]] :
              c \in { [columns |-> AllColumns, date_dtype |-> "datetime64"],
                      [columns |-> AllColumns, date_dtype |-> "object"],
                      [columns |-> AllColumns \ {"date"}, date_dtype |-> ""],
                      [columns |-> AllColumns \ {"goals_away"},
                       date_dtype |-> "datetime64"] },
              f \in [1..n -> 1..Len(SourceRows)] } :
          n \in 0..MaxSourceRows }

common_cols == << "team_home", "team_away", "goals_home", "goals_away" >>

\* merge_cols: the team names, and the date when both sources have it
merge_cols(source1, source2) ==
  {"team_home", "team_away"}
  \cup (IF "date" \in source1.columns /\ "date" \in source2.columns THEN {"date"} ELSE {})

\* pandas refuses to merge a datetime64 key column with an object one
merge_raises(source1, source2) ==
  /\ "date" \in merge_cols(source1, source2)
  /\ source1.date_dtype # source2.date_dtype

\* source1.merge(source2, on=merge_cols, how="inner"): the pairs of rows
\* whose key columns are equal
merged(source1, source2) ==
  { p \in (1..Len(source1.rows)) \X (1..Len(source2.rows)) :
      \A c \in merge_cols(source1, source2) :
        source1.rows[p[1]][c] = source2.rows[p[2]][c] }

\* the != of two pandas columns, element by element: a missing value is
\* unequal to everything, itself included
ne(a, b) == a = NA \/ b = NA \/ a # b

\* goal_mismatches: the joined rows whose home or away goals are unequal
goal_mismatches(source1, source2) ==
  { p \in merged(source1, source2) :
      \/ ne(source1.rows[p[1]].goals_home, source2.rows[p[2]].goals_home)
      \/ ne(source1.rows[p[1]].goals_away, source2.rows[p[2]].goals_away) }

RECURSIVE Gcd(_, _)
Gcd(a, b) == IF b = 0 THEN a ELSE Gcd(b, a % b)

\* the float a / b, as the fraction in lowest terms
Divide(a, b) == [num |-> a \div Gcd(a, b), den |-> b \div Gcd(a, b)]

NoCrossValidation ==
  [present |-> FALSE, common_matches |-> 0, goal_mismatches |-> 0,
   mismatch_rate |-> Divide(0, 1)]

\* reset_report
EmptyCrossReport ==
  [errors |-> << >>, warnings |-> << >>, info |-> << >>,
   cross_validation |-> NoCrossValidation]

\* self.validation_report["cross_validation"] = {...}
cross_validation(source1, source2) ==
  [present |-> TRUE,
   common_matches |-> Cardinality(merged(source1, source2)),
   goal_mismatches |-> Cardinality(goal_mismatches(source1, source2)),
   mismatch_rate |-> Divide(Cardinality(goal_mismatches(source1, source2)),
                            Cardinality(merged(source1, source2)))]

\* the _add_error calls before the try statement
cross_gate_findings(source1, source2) ==
  IF Len(source1.rows) = 0 \/ Len(source2.rows) = 0
  THEN << Finding("error", "empty_sources") >>
  ELSE When(\E n \in 1..Len(common_cols) :
              common_cols[n] \notin source1.columns \/ common_cols[n] \notin source2.columns,
            "error", "missing_required_columns")

\* the calls of the try block, in order
cross_try_findings(source1, source2) ==
  IF merge_raises(source1, source2) THEN << Finding("exception", "ValueError") >>
  ELSE IF merged(source1, source2) = {}
  THEN << Finding("warning", "no_common_matches") >>
  ELSE << Finding("info", "common_matches") >>
       \o When(goal_mismatches(source1, source2) # {}, "warning", "goal_mismatches")

InitCross ==
  /\ x_pc = "idle"
  /\ x_strict = FALSE
  /\ x_s1 = [columns |-> {}, date_dtype |-> "", rows |-> << >>]
  /\ x_s2 = [columns |-> {}, date_dtype |-> "", rows |-> << >>]
  /\ x_report = EmptyCrossReport
  /\ x_ret = "pending"

\* cross_validate_sources(source1, source2, ..., strict_mode) up to the end of
\* its try block
CrossValidateSources ==
  /\ x_pc = "idle"
  /\ \E strict \in BOOLEAN, source1 \in SourceTables, source2 \in SourceTables :
       LET gate == add_findings(EmptyReport, strict, cross_gate_findings(source1, source2))
           body == add_findings(gate.report, strict, cross_try_findings(source1, source2))
           with(r, cv) == [errors |-> r.errors, warnings |-> r.warnings, info |-> r.info,
                           cross_validation |-> cv]
       IN  /\ x_strict' = strict
           /\ x_s1' = source1
           /\ x_s2' = source2
           /\ IF gate.raised # ""
              THEN /\ x_report' = with(gate.report, NoCrossValidation)
                   /\ x_pc' = "raised"
                   /\ x_ret' = gate.raised
              ELSE IF gate.report.errors # << >>
              THEN /\ x_report' = with(gate.report, NoCrossValidation)
                   /\ x_pc' = "returned"
                   /\ x_ret' = "report"
              ELSE IF body.raised # ""
              THEN /\ x_report' = with(body.report, NoCrossValidation)
                   /\ x_pc' = "except"
                   /\ x_ret' = "pending"
              ELSE IF merged(source1, source2) = {}
              THEN /\ x_report' = with(body.report, NoCrossValidation)
                   /\ x_pc' = "returned"
                   /\ x_ret' = "report"
              ELSE /\ x_report' = with(body.report, cross_validation(source1, source2))
                   /\ x_pc' = "returned"
                   /\ x_ret' = "report"
  /\ UNCHANGED not_cross_vars

\* except Exception as e: self._add_error(...), and the return after it
ExceptClause ==
  /\ x_pc = "except"
  /\ LET r == add_findings([errors |-> x_report.errors, warnings |-> x_report.warnings,
                            info |-> x_report.info],
                           x_strict, << Finding("error", "error_during_cross_validation") >>)
     IN  /\ x_report' = [x_report EXCEPT !.errors = r.report.errors]
         /\ x_pc' = IF r.raised # "" THEN "raised" ELSE "returned"
         /\ x_ret' = IF r.raised # "" THEN r.raised ELSE "report"
  /\ UNCHANGED << x_strict, x_s1, x_s2 >>
  /\ UNCHANGED not_cross_vars

(***************************************************************************)
(* hash_dataframe                                                          *)
(***************************************************************************)
MaxHashRows == 2

\* display.precision: the decimals to_string prints of a float
DisplayPrecision == 6

\* a float cell is held as its number of 10^-7 units: 1.5, 2.0 and two
\* values that differ in the seventh decimal
XgValues == {15000000, 20000000, 11234561, 11234564}

HashTeams == {"Arsenal", "Chelsea"}

\* tables with a text column team and a float column xg
HashTables ==
  UNION { [1..n -> [team : HashTeams, xg : XgValues]] : n \in 0..MaxHashRows }

DigitChar == << "0", "1", "2", "3", "4", "5", "6", "7", "8", "9" >>

RECURSIVE IntStr(_)
IntStr(n) == IF n < 10 THEN DigitChar[n + 1] ELSE IntStr(n \div 10) \o DigitChar[(n % 10) + 1]

RECURSIVE Pow10(_)
Pow10(k) == IF k = 0 THEN 1 ELSE 10 * Pow10(k - 1)

\* the digits of n, with zeros in front up to the width
RECURSIVE ZeroPad(_, _)
ZeroPad(t, w) == IF Len(t) >= w THEN t ELSE ZeroPad("0" \o t, w)

\* right justification
RECURSIVE Pad(_, _)
Pad(t, w) == IF Len(t) >= w THEN t ELSE Pad(" " \o t, w)

\* the float rounded to display.precision decimals, in 10^-7 units
rounded(v) == ((v + 5) \div 10) * 10

\* the decimals the float column is printed with: display.precision, less the
\* zeros that end every value, and one at least
decimals(df) ==
  LET fits(d) == \A i \in 1..Len(df) : rounded(df[i].xg) % Pow10(7 - d) = 0
  IN  IF \E d \in 1..DisplayPrecision : fits(d)
      THEN CHOOSE d \in 1..DisplayPrecision :
             fits(d) /\ \A e \in 1..DisplayPrecision : fits(e) => d <= e
      ELSE 7

\* a float as the column prints it
float_text(v, d) ==
  IntStr(rounded(v) \div Pow10(7)) \o "."
    \o ZeroPad(IntStr((rounded(v) % Pow10(7)) \div Pow10(7 - d)), d)

Max(a, b) == IF a > b THEN a ELSE b

RECURSIVE width(_, _)
\* the widest text of a column, header included
width(header, texts) ==
  IF texts = << >> THEN Len(header)
  ELSE Max(Len(Head(texts)), width(header, Tail(texts)))

\* df.to_string(index=False): the header line and one line per row, every
\* column right-justified to its widest text
to_string(df) ==
  IF Len(df) = 0 THEN << "Empty DataFrame", "Columns: [team, xg]", "Index: []" >>
  ELSE LET teams == [i \in 1..Len(df) |-> df[i].team]
           xgs == [i \in 1..Len(df) |-> float_text(df[i].xg, decimals(df))]
           wt == width("team", teams)
           wx == width("xg", xgs)
       IN  << Pad("team", wt) \o " " \o Pad("xg", wx) >>
           \o [i \in 1..Len(df) |-> Pad(teams[i], wt) \o " " \o Pad(xgs[i], wx)]

\* hashlib.md5(...).hexdigest(): a digest stands for the text it was made of
md5(text) == [hexdigest |-> text, error |-> FALSE]

\* the string "hash_error" of the except clause
HashError == [hexdigest |-> << >>, error |-> TRUE]

\* to_string does not raise for the tables above, so the except clause of
\* hash_dataframe is not entered
hash_dataframe(df) == md5(to_string(df))

InitHash ==
  /\ h_pc = "idle"
  /\ h_df1 = << >>
  /\ h_df2 = << >>
  /\ h_hash1 = md5(<< >>)
  /\ h_hash2 = md5(<< >>)

\* hash_dataframe(df1) and hash_dataframe(df2)
HashDataframes ==
  /\ h_pc = "idle"
  /\ \E df1 \in HashTables, df2 \in HashTables :
       /\ h_df1' = df1
       /\ h_df2' = df2
       /\ h_hash1' = hash_dataframe(df1)
       /\ h_hash2' = hash_dataframe(df2)
  /\ h_pc' = "hashed"
  /\ UNCHANGED not_hash_vars

(***************************************************************************)
(* UnifiedScraper.scrape_multiple_leagues                                  *)
(***************************************************************************)
MaxLeagues == 3

\* UnifiedScraper(max_workers=...)
MaxWorkerCounts == {1, 2}

RequestedLeagues == {"ENG_PL", "ESP_LL", "USA_XX"}

\* the league_codes lists of a call
LeagueCodeLists == UNION { [1..n -> RequestedLeagues] : n \in 0..MaxLeagues }

\* how a run of scrape_league ends: with the league's table, with the empty
\* table of exhaustion, or raising (RuntimeError: no source for the league)
RunOutcomes == {"table", "empty_table", "raised"}

\* pd.DataFrame()
EmptyLeagueTable == [league_code |-> "", empty |-> TRUE]

\* future.result() of a run that did not raise
future_result(code, outcome) ==
  IF outcome = "table" THEN [league_code |-> code, empty |-> FALSE]
  ELSE EmptyLeagueTable

\* variant: a run that raised leaves no entry
collect_without_failed(results, code, outcome) ==
  IF outcome = "raised" THEN results
  ELSE DictPut(results, code, future_result(code, outcome))

\* the body of the as_completed loop: results[league_code] = df, or
\* pd.DataFrame() when future.result() raises
collect(results, code, outcome) ==
  IF outcome = "raised" THEN DictPut(results, code, EmptyLeagueTable)
  ELSE DictPut(results, code, future_result(code, outcome))

Tasks == 1..Len(p_codes)

Running == { i \in Tasks : p_task[i] = "running" }

InitPool ==
  /\ p_pc = "idle"
  /\ p_codes = << >>
  /\ p_max_workers = 1
  /\ p_task = << >>
  /\ p_outcome = << >>
  /\ p_results = EmptyDict
  /\ p_order = << >>

\* results = {}, the executor and the submit of every league code
ScrapeMultipleLeagues ==
  /\ p_pc = "idle"
  /\ \E codes \in LeagueCodeLists, workers \in MaxWorkerCounts :
       /\ p_codes' = codes
       /\ p_max_workers' = workers
       /\ p_task' = [i \in 1..Len(codes) |-> "queued"]
       /\ p_outcome' = [i \in 1..Len(codes) |-> ""]
  /\ p_pc' = "collecting"
  /\ p_results' = EmptyDict
  /\ p_order' = << >>
  /\ UNCHANGED not_pool_vars

\* a free worker thread of the executor takes the run that was submitted
\* first among those waiting and calls scrape_league
StartRunInPool ==
  /\ p_pc = "collecting"
  /\ Cardinality(Running) < p_max_workers
  /\ \E i \in Tasks :
       /\ p_task[i] = "queued"
       /\ \A j \in Tasks : j < i => p_task[j] # "queued"
       /\ p_task' = [p_task EXCEPT ![i] = "running"]
  /\ UNCHANGED << p_pc, p_codes, p_max_workers, p_outcome, p_results, p_order >>
  /\ UNCHANGED not_pool_vars

\* a run of scrape_league ends in its worker thread
FinishRunInPool ==
  /\ p_pc = "collecting"
  /\ \E i \in Running, outcome \in RunOutcomes :
       /\ p_task' = [p_task EXCEPT ![i] = "done"]
       /\ p_outcome' = [p_outcome EXCEPT ![i] = outcome]
  /\ UNCHANGED << p_pc, p_codes, p_max_workers, p_results, p_order >>
  /\ UNCHANGED not_pool_vars

\* one pass of `for future in as_completed(future_to_league)`
CollectResult ==
  /\ p_pc = "collecting"
  /\ \E i \in Tasks :
       /\ p_task[i] = "done"
       /\ p_task' = [p_task EXCEPT ![i] = "collected"]
       /\ p_results' = collect(p_results, p_codes[i], p_outcome[i])
       /\ p_order' = Append(p_order, i)
  /\ UNCHANGED << p_pc, p_codes, p_max_workers, p_outcome >>
  /\ UNCHANGED not_pool_vars

\* the loop is over, the executor shuts down: return results
ReturnResults ==
  /\ p_pc = "collecting"
  /\ \A i \in Tasks : p_task[i] = "collected"
  /\ p_pc' = "returned"
  /\ UNCHANGED << p_codes, p_max_workers, p_task, p_outcome, p_results, p_order >>
  /\ UNCHANGED not_pool_vars

(***************************************************************************)
(* One DataQualityValidator object shared by the threads of a program      *)
(***************************************************************************)
\* the validation calls one run makes on the object
MaxSharedCalls == 2

Threads == {1, 2}

\* the data sources validate_historical_coverage is given: for each its name,
\* whether its table is empty and the seasons of its season column
CoverageSources ==
  { << >>,
    << [name |-> "fbref", empty |-> TRUE, seasons |-> {}],
       [name |-> "understat", empty |-> FALSE, seasons |-> {"2023"}] >> }

\* the calls made on the shared object: fixtures tables of one row (both
\* teams named, so that no check fails on the .str accessor), a pair of
\* sources that disagree on a score, and coverage requests
SharedCalls ==
  { [method |-> "validate_fixtures_data",
     df |-> [columns |-> AllColumns \ {"date"},
             rows |-> << FixtureCells(FixtureRows[r], AllColumns \ {"date"}) >>],
     season |-> "", s1 |-> 0, s2 |-> 0, sources |-> << >>, required |-> {}] :
        r \in {1, 2} }
  \cup
  { [method |-> "cross_validate_sources", df |-> EmptyDataFrame, season |-> "",
     s1 |-> 1, s2 |-> 2, sources |-> << >>, required |-> {}] }
  \cup
  { [method |-> "validate_historical_coverage", df |-> EmptyDataFrame, season |-> "",
     s1 |-> 0, s2 |-> 0, sources |-> ds, required |-> {"2024"}] :
        ds \in CoverageSources }

NoCall == [method |-> "", df |-> EmptyDataFrame, season |-> "", s1 |-> 0, s2 |-> 0,
           sources |-> << >>, required |-> {}, number |-> 0]

\* the table of one row of SourceRows, with its dates parsed
SourceTable(r) ==
  [columns |-> AllColumns, date_dtype |-> "datetime64",
   rows |-> << FixtureCells(SourceRows[r], AllColumns) >>]

\* the findings of the checks validate_fixtures_data calls from the n-th on
RECURSIVE checks_from(_, _, _, _)
checks_from(n, df, season, current) ==
  IF n > Len(CheckOrder) THEN << >>
  ELSE (IF Applies(CheckOrder[n], df, season)
        THEN FindingsOf(CheckOrder[n], df, season, current) ELSE << >>)
       \o checks_from(n + 1, df, season, current)

HasError(fs) == \E n \in 1..Len(fs) : fs[n].level = "error"

\* validate_fixtures_data with strict_mode = False: its _add_* calls in order
fixtures_steps(df, season, current) ==
  IF HasError(gate_findings(df)) THEN gate_findings(df)
  ELSE gate_findings(df) \o checks_from(1, df, season, current)

\* cross_validate_sources with strict_mode = False: its _add_* calls in order,
\* the one of the except clause included, and the assignment of the
\* cross_validation key
cross_steps(source1, source2) ==
  IF cross_gate_findings(source1, source2) # << >>
  THEN cross_gate_findings(source1, source2)
  ELSE IF merge_raises(source1, source2)
  THEN << Finding("error", "error_during_cross_validation") >>
  ELSE cross_try_findings(source1, source2)
       \o (IF merged(source1, source2) = {} THEN << >>
           ELSE << Finding("key", "cross_validation") >>)

\* validate_historical_coverage with strict_mode = False: its _add_* calls in
\* order and the assignment of the coverage_analysis key
coverage_steps(data_sources, required_seasons) ==
  IF data_sources = << >> THEN << Finding("error", "no_data_sources") >>
  ELSE LET named == { n \in 1..Len(data_sources) : ~ data_sources[n].empty }
           all_seasons == UNION { data_sources[n].seasons : n \in named }
           empty_from(n) == IF data_sources[n].empty
                            THEN << Finding("warning", "empty_source") >> ELSE << >>
       IN  SumSeq(empty_from, Len(data_sources))
           \o When(required_seasons # {} /\ required_seasons \ all_seasons # {},
                   "warning", "missing_required_seasons")
           \o << Finding("key", "coverage_analysis") >>

call_steps(call, current) ==
  CASE call.method = "validate_fixtures_data" ->
         fixtures_steps(call.df, call.season, current)
    [] call.method = "cross_validate_sources" ->
         cross_steps(SourceTable(call.s1), SourceTable(call.s2))
    [] call.method = "validate_historical_coverage" ->
         coverage_steps(call.sources, call.required)

\* {"errors": [], "warnings": [], "info": []}; keys holds the keys assigned
\* to the dict later
NewReport == [errors |-> << >>, warnings |-> << >>, info |-> << >>, keys |-> {}]

\* variant: the lists of the dict in use are emptied
reset_report_in_place(heap, self) ==
  [heap |-> [heap EXCEPT ![self] = NewReport], self |-> self]

\* reset_report: self.validation_report is bound to a new dict
reset_report(heap, self) ==
  [heap |-> Append(heap, NewReport), self |-> Len(heap) + 1]

\* one _add_error, _add_warning or _add_info call, or one key assignment, on
\* the dict self.validation_report is bound to at that moment
apply_step(heap, self, f) ==
  IF f.level = "key" THEN [heap EXCEPT ![self].keys = @ \cup {f.code}]
  ELSE [heap EXCEPT ![self] = add_finding(@, f)]

InitShared ==
  /\ s_heap = << NewReport >>
  /\ s_self = 1
  /\ s_pc = [t \in Threads |-> "idle"]
  /\ s_call = [t \in Threads |-> NoCall]
  /\ s_todo = [t \in Threads |-> << >>]
  /\ s_returned = << >>
  /\ s_calls = 0

\* a thread calls one of the three validation methods of the object
SharedCall(t) ==
  /\ s_pc[t] = "idle"
  /\ s_calls < MaxSharedCalls
  /\ \E call \in SharedCalls, current \in Nows :
       /\ s_call' = [s_call EXCEPT ![t] =
                       [method |-> call.method, df |-> call.df, season |-> call.season,
                        s1 |-> call.s1, s2 |-> call.s2, sources |-> call.sources,
                        required |-> call.required, number |-> s_calls + 1]]
       /\ s_todo' = [s_todo EXCEPT ![t] = call_steps(call, current)]
  /\ s_calls' = s_calls + 1
  /\ s_pc' = [s_pc EXCEPT ![t] = "called"]
  /\ UNCHANGED << s_heap, s_self, s_returned >>
  /\ UNCHANGED not_shared_vars

\* self.reset_report(), the first statement of each of the three methods
SharedReset(t) ==
  /\ s_pc[t] = "called"
  /\ s_heap' = reset_report(s_heap, s_self).heap
  /\ s_self' = reset_report(s_heap, s_self).self
  /\ s_pc' = [s_pc EXCEPT ![t] = "running"]
  /\ UNCHANGED << s_call, s_todo, s_returned, s_calls >>
  /\ UNCHANGED not_shared_vars

\* the next _add_* call or key assignment of the call
SharedStep(t) ==
  /\ s_pc[t] = "running"
  /\ s_todo[t] # << >>
  /\ s_heap' = apply_step(s_heap, s_self, Head(s_todo[t]))
  /\ s_todo' = [s_todo EXCEPT ![t] = Tail(@)]
  /\ UNCHANGED << s_pc, s_call, s_self, s_returned, s_calls >>
  /\ UNCHANGED not_shared_vars

\* return self.validation_report: the dict the attribute is bound to now
SharedReturn(t) ==
  /\ s_pc[t] = "running"
  /\ s_todo[t] = << >>
  /\ s_returned' = Append(s_returned,
                          [call |-> s_call[t], thread |-> t, report |-> s_self,
                           on_return |-> s_heap[s_self], calls |-> s_calls])
  /\ s_pc' = [s_pc EXCEPT ![t] = "idle"]
  /\ s_call' = [s_call EXCEPT ![t] = NoCall]
  /\ UNCHANGED << s_heap, s_self, s_todo, s_calls >>
  /\ UNCHANGED not_shared_vars

(***************************************************************************)
(* Specifications                                                          *)
(***************************************************************************)
NextScrape == StartRun \/ TrySource \/ AllSourcesFailed

\* runs of scrape_league
InitRun ==
  /\ InitScrape
  /\ InitGet
  /\ InitMonitor
  /\ InitTrend
  /\ InitValidator
  /\ InitCross
  /\ InitHash
  /\ InitPool
  /\ InitShared

SpecScrape == InitRun /\ [][NextScrape]_vars

NextScrapeLive == StartRun \/ TrySourceUniform \/ AllSourcesFailed

\* runs of scrape_league in which every call the loop makes comes back, so
\* that the loop of scrape_league goes on with its next statement
SpecScrapeLive == InitRun /\ [][NextScrapeLive]_vars /\ WF_vars(NextScrapeLive)

InitFetch ==
  /\ InitScrape
  /\ comp_data = Sources
  /\ InitGet
  /\ InitMonitor
  /\ InitTrend
  /\ InitValidator
  /\ InitCross
  /\ InitHash
  /\ InitPool
  /\ InitShared

NextGet == GetCall \/ BeginAttempt \/ SendRequest \/ AllAttemptsFailed

\* calls of RequestsScraper.get
SpecGet == InitFetch /\ [][NextGet]_vars

NextMonitor ==
  \/ Construct
  \/ RecordDataFetch
  \/ CheckDataFreshness
  \/ DetectDataChanges
  \/ GetStaleDataReport
  \/ CleanupOldMetadata
  \/ Tick

\* one thread working with one monitor object at a time
SpecMonitor == InitFetch /\ [][NextMonitor]_vars

NextMonitorFaults == NextMonitor \/ ConstructLoadFails

\* one thread and one monitor object at a time, on a cache directory whose
\* file may fail to load
SpecMonitorFaults == InitFetch /\ [][NextMonitorFaults]_vars

NextWorkers ==
  \E w \in Workers :
    \/ WorkerCall(w)
    \/ WorkerConstruct(w)
    \/ WorkerAssign(w)
    \/ WorkerSave(w)

\* two workers calling the module's record_data_fetch on one cache directory
SpecWorkers == InitFetch /\ [][NextWorkers]_vars

NextTrend == TrendConstruct \/ RecordQualityMetrics

\* one thread working with one tracker object at a time
SpecTrend == InitFetch /\ [][NextTrend]_vars

NextTrendWindow == TrendConstruct \/ RecordValidationMetrics \/ GetQualityTrend \/ Tick

\* one tracker object, a few recorded validation runs and time passing
SpecTrendWindow == InitFetch /\ [][NextTrendWindow]_vars

NextValidator == ValidateFixturesData \/ RunCheck \/ ReturnReport

\* calls of validate_fixtures_data, each on a new validator
SpecValidator == InitFetch /\ [][NextValidator]_vars

NextCross == CrossValidateSources \/ ExceptClause

\* calls of cross_validate_sources
SpecCross == InitFetch /\ [][NextCross]_vars

NextHash == HashDataframes

\* pairs of hash_dataframe calls
SpecHash == InitFetch /\ [][NextHash]_vars

NextPool ==
  \/ ScrapeMultipleLeagues
  \/ StartRunInPool
  \/ FinishRunInPool
  \/ CollectResult
  \/ ReturnResults

\* calls of scrape_multiple_leagues
SpecPool == InitFetch /\ [][NextPool]_vars

NextShared ==
  \E t \in Threads :
    \/ SharedCall(t)
    \/ SharedReset(t)
    \/ SharedStep(t)
    \/ SharedReturn(t)

\* two threads calling the validation methods of one validator object
SpecShared == InitFetch /\ [][NextShared]_vars


(***************************************************************************)
(* Properties of scrape_league                                             *)
(***************************************************************************)
Project(r) ==
  [date |-> r.date, team_home |-> r.team_home, team_away |-> r.team_away,
   goals_home |-> r.goals_home, goals_away |-> r.goals_away]

LastAttempted == attempted_sources[Len(attempted_sources)]

\* C1: a dataset handed back by scrape_league is empty, or its rows are, in
\* order and one for one, the rows fetched from the one accepted source of
\* the run; when the run is exhausted or raises, no row is handed back.
C1_NoFabricatedRows ==
  /\ Len(ret.df.rows) > 0 =>
       /\ pc = "done"
       /\ Len(ret.df.rows) = Len(accepted_raw.rows)
       /\ \A i \in 1..Len(ret.df.rows) :
            /\ Project(ret.df.rows[i]) = accepted_raw.rows[i]
            /\ ret.df.rows[i].data_source = LastAttempted
  /\ pc \in {"exhausted", "raised"} => Len(ret.df.rows) = 0

\* C1 witness: a run whose second candidate was accepted with five rows
C1_Witness ==
  /\ pc = "done"
  /\ Len(attempted_sources) = 2
  /\ Len(ret.df.rows) = MinRows

\* the candidate order the caller is promised
ExpectedOrder ==
  LET avail == IF LEAGUE_TO_COMPETITION(league_code) = "" THEN {} ELSE comp_data
      first == IF preferred_source # "" /\ preferred_source \in avail
               THEN << preferred_source >> ELSE << >>
      Later(s) == s \in avail /\ ~ InSeq(s, first)
  IN  first \o SelectSeq(<< "fbref", "footballdata", "understat" >>, Later)

\* C2: the attempted sources are a prefix of the preferred source (when
\* supplied and available) followed by the other available sources in the
\* order fbref, footballdata, understat; the run is over as soon as a
\* candidate is accepted, so none is attempted after it.
C2_PriorityOrder ==
  pc # "idle" =>
    /\ Len(attempted_sources) <= Len(ExpectedOrder)
    /\ attempted_sources = SubSeq(ExpectedOrder, 1, Len(attempted_sources))
    /\ last_outcome = "accepted" =>
         /\ pc = "done"
         /\ \A i \in 1..Len(ret.df.rows) : ret.df.rows[i].data_source = LastAttempted

\* C2 witness: understat preferred and tried first, then fbref accepted
C2_Witness ==
  /\ pc = "done"
  /\ comp_data = Sources
  /\ attempted_sources = << "understat", "fbref" >>

\* C3: when the table fetched from a candidate has a row dated after today
\* with both goals populated, the gate rejects the whole table: no row of
\* it is handed back and the run has moved on past that candidate.
C3_FutureCompletedRejected ==
  fetched_future_done =>
    /\ last_outcome = "rejected"
    /\ pc \in {"trying", "exhausted"}
    /\ idx = Len(attempted_sources)
    /\ Len(ret.df.rows) = 0

\* C3 witness: the first candidate was rejected for it and a second remains
C3_Witness ==
  /\ fetched_future_done
  /\ pc = "trying"
  /\ idx = 1
  /\ Len(sources_to_try) >= 2

Blank(team) == team = ""

\* C4 (as claimed): an accepted dataset has at least one row, has the home
\* team, away team, home goals and away goals columns, no blank team name,
\* no negative goal value, no row of a team against itself and no row dated
\* after today with both goals populated.
C4_AcceptedIsClean ==
  pc = "done" =>
    /\ Len(ret.df.rows) >= 1
    /\ {"team_home", "team_away", "goals_home", "goals_away"} \subseteq ret.df.columns
    /\ \A i \in 1..Len(ret.df.rows) :
         LET r == ret.df.rows[i]
         IN  /\ ~ Blank(r.team_home) /\ ~ Blank(r.team_away)
             /\ r.goals_home >= 0 /\ r.goals_away >= 0
             /\ r.team_home # r.team_away
             /\ ~ FutureCompleted(r, now)

\* C5 (as claimed): when every candidate has failed the caller receives a
\* raised failure that carries the attempted sources and the last error.
C5_ExplicitFailure ==
  pc = "exhausted" =>
    /\ ret.kind = "raise"
    /\ ret.attempted = attempted_sources
    /\ ret.error # ""

\* C6: a candidate's failure, at whatever stage, never leaves the run: the
\* run raises only before any candidate was tried, and after a failed
\* candidate the loop stands behind it, to go on with the next one or, when
\* none remains, to finish.
C6_FailureContinues ==
  /\ pc = "raised" => attempted_sources = << >>
  /\ last_outcome \notin {"", "accepted"} =>
       /\ pc \in {"trying", "exhausted"}
       /\ idx = Len(attempted_sources)
  /\ pc = "exhausted" => Len(attempted_sources) = Len(sources_to_try)

\* C6 witness: a candidate raised out of its league lookup and a later one
\* was accepted
C6_Witness ==
  /\ pc = "done"
  /\ last_error = "league_lookup"

(***************************************************************************)
(* Properties of RequestsScraper.get                                       *)
(***************************************************************************)
\* C7 (as claimed): a call of get puts at most max_retries + 1 requests on
\* the wire, whatever the server answers.
C7_AtMostMaxRetriesPlusOne ==
  requests_sent <= max_retries + 1

\* C8 (as claimed): get makes a further attempt only after a timeout, a
\* connection failure, or an HTTP 5xx or 429 status.
C8_RetryOnlyOnTransient ==
  g_retry_cause \in {"", "timeout", "connection", "http_5xx", "http_429"}

\* the class of error the caller is promised for a terminal status
PromisedError(status) ==
  IF status = 404 THEN "not_found"
  ELSE IF status = 403 THEN "access_denied"
  ELSE "http_error"

\* C9: once an attempt has received HTTP 400, 401, 403, 404 or 410 the call
\* has failed, with no further attempt, by a RequestException classified as
\* not found (404), access denied (403) or a generic HTTP error that carries
\* the status.
C9_TerminalStatus ==
  g_last_status \in {400, 401, 403, 404, 410} =>
    /\ g_pc = "raised"
    /\ g_ret.kind = "raise"
    /\ g_ret.exc \in RequestExceptions
    /\ g_ret.status = g_last_status
    /\ g_ret.error = PromisedError(g_last_status)

\* C9 witness: 410 arrives on the second attempt while attempts remain
C9_Witness ==
  /\ g_last_status = 410
  /\ attempt = 1
  /\ attempt < max_retries
  /\ g_pc = "raised"

\* C10: what get returns is a non-empty body that passed
\* validate_response_data on the attempt that produced it; every other end
\* of the call is a raised RequestException.
C10_ReturnsOnlyScreenedBody ==
  /\ g_pc = "returned" =>
       /\ g_ret.kind = "body"
       /\ g_ret.body.len > 0
       /\ ~ g_ret.body.blank
       /\ g_screen = "passed"
       /\ validate_response_data(g_ret.body, api_url)
  /\ g_pc = "raised" =>
       /\ g_ret.kind = "raise"
       /\ g_ret.exc \in RequestExceptions
  /\ g_ret.kind = "body" => g_pc = "returned"
  /\ g_pc \in {"idle", "loop", "sending"} => g_ret.kind = "pending"

\* C10 witness: a body returned by the second attempt, after a rejected one
C10_Witness ==
  /\ g_pc = "returned"
  /\ attempt = 1
  /\ g_retry_cause = "rejected"

\* C11: a non-empty body that holds one of the error indicators is rejected
\* by validate_response_data whatever its size and whatever kind of content
\* it is, and get never returns such a body.
C11_MarkedBodyRejected ==
  /\ g_screen # "not_run" /\ g_screened.marker => g_screen = "failed"
  /\ g_screen = "failed" => g_pc # "returned"
  /\ g_pc = "returned" => ~ g_ret.body.marker
  /\ \A b \in Bodies, api \in BOOLEAN :
       b.len > 0 /\ ~ b.blank /\ b.marker => ~ validate_response_data(b, api)

\* C11 witness: a large HTML body with an error indicator
\* was screened and turned down, and the call went on to a further attempt
C11_Witness ==
  /\ g_screened.marker
  /\ g_screened.len > ApiSize
  /\ g_screened.html
  /\ g_screen = "failed"
  /\ g_retry_cause = "rejected"
  /\ g_pc = "sending"

InCycle(w) == m_pc[w] \in {"constructed", "assigned"}

AllIdle == \A w \in Workers : m_pc[w] = "none"

Stored == load_metadata(m_file)

\* C13: two workers that record a fetch for the same identity on the same
\* cache directory never are inside their load-update-save cycles at the same
\* time, and once they are through, the stored fetch_count has grown by one for
\* each of their calls.
C13_SameIdentityExclusive ==
  /\ \A v \in Workers, w \in Workers :
       v # w /\ InCycle(v) /\ InCycle(w) => m_args[v].id # m_args[w].id
  /\ AllIdle =>
       \A k \in DOMAIN Stored : Stored[k].fetch_count = m_calls[k]

\* C14: when the workers have recorded fetches for different identities, the
\* persisted store holds a record for each identity that was recorded.
C14_BothRecordsKept ==
  AllIdle => \A k \in MetadataKeys : m_calls[k] > 0 => k \in DOMAIN Stored

\* C15: whatever operations a monitor performs, the fetch_count stored for a
\* key never is lower than it was before, and a record_data_fetch leaves it
\* exactly one higher than it found it (1 when there was no record), with
\* last_fetched at the current time.
C15_FetchCountMonotone ==
  /\ \A k \in DOMAIN Stored : Stored[k].fetch_count >= m_high[k]
  /\ m_ret.op = "record" =>
       LET key == metadata_key(m_ret.id)
       IN  /\ key \in DOMAIN Stored
           /\ Stored[key].fetch_count = m_ret.before + 1
           /\ Stored[key].last_fetched = isoformat(m_clock)

C17_FreshnessByAge ==
  m_ret.op = "check" =>
    LET key == metadata_key(m_ret.id)
        out == m_ret.out
    IN  /\ out.status = "never_fetched" <=> key \notin DOMAIN m_mem[Main]
        /\ out.status = "never_fetched" =>
             ~ out.is_fresh /\ out.recommendation = "fetch_data"
        /\ key \in DOMAIN m_mem[Main] =>
             LET age == m_clock - m_mem[Main][key].last_fetched.iso
             IN  /\ out.is_fresh <=> age <= m_ret.arg
                 /\ out.is_fresh => out.status = "fresh" /\ out.recommendation = "use_cached"
                 /\ ~ out.is_fresh => out.status = "stale" /\ out.recommendation = "fetch_new"
                 /\ m_ret.arg = 24 /\ age = 0 => out.status = "fresh"
                 /\ m_ret.arg = 24 /\ age >= 25 => out.status = "stale"

\* C17 witness: a record that is 25 hours old is checked against 24 hours
C17_Witness ==
  /\ m_ret.op = "check"
  /\ m_ret.arg = 24
  /\ m_ret.out.age_hours = 25
  /\ m_ret.out.status = "stale"

\* the two counts are both known and are not the same
CountsDiffer(a, b) == a # NoneInt /\ b # NoneInt /\ a # b

\* C18: detect_data_changes answers new_data exactly when there is no record;
\* otherwise no_change iff the hash is the same and the counts do not differ,
\* content_changed iff only the hash differs, count_changed iff only the count
\* differs, content_and_count_changed iff both do; has_changed is false exactly
\* for no_change, and no other change_type is ever returned.
C18_ChangeClassified ==
  m_ret.op = "detect" =>
    LET key == metadata_key(m_ret.id)
        out == m_ret.out
        present == key \in DOMAIN m_mem[Main]
        hash_differs == m_mem[Main][key].data_hash # m_ret.data.data_hash
        count_differs == CountsDiffer(m_mem[Main][key].record_count,
                                      m_ret.data.record_count)
    IN  /\ out.change_type \in {"new_data", "no_change", "content_changed",
                                "count_changed", "content_and_count_changed"}
        /\ out.change_type = "new_data" <=> ~ present
        /\ out.has_changed <=> out.change_type # "no_change"
        /\ present =>
             /\ out.change_type = "no_change" <=> ~ hash_differs /\ ~ count_differs
             /\ out.change_type = "content_changed" <=> hash_differs /\ ~ count_differs
             /\ out.change_type = "count_changed" <=> ~ hash_differs /\ count_differs
             /\ out.change_type = "content_and_count_changed" <=>
                  hash_differs /\ count_differs

\* C18 witness: the same hash with another count is told from the record
C18_Witness ==
  /\ m_ret.op = "detect"
  /\ m_ret.out.change_type = "count_changed"
  /\ m_ret.out.has_changed

\* the entry recorded by the n-th call for a key
EntryOf(n) == metrics_with_timestamp(Metrics(n), m_clock)

Min(a, b) == IF a < b THEN a ELSE b

\* C19: after any number n of record_quality_metrics calls for an identity,
\* its history holds at most 100 entries: the min(n, 100) entries recorded
\* last, in the order they were recorded; the same holds of the saved file.
C19_HistoryKeepsLatest ==
  t_pc = "ready" =>
    \A k \in MetadataKeys :
      LET n == t_count[k]
          kept == Min(n, 100)
      IN  /\ n = 0 <=> k \notin DOMAIN t_trends
          /\ n > 0 =>
               /\ Len(t_trends[k].history) <= 100
               /\ t_trends[k].history = [i \in 1..kept |-> EntryOf(n - kept + i)]
               /\ load_trends(t_file)[k].history = t_trends[k].history

\* C19 witness: 102 calls were made for one identity, and its history runs
\* from the third entry to the last
C19_Witness ==
  \E k \in DOMAIN t_trends :
    /\ t_count[k] = 102
    /\ Len(t_trends[k].history) = 100
    /\ t_trends[k].history[1].error_count = 3
    /\ t_trends[k].history[100].error_count = 102

\* the warnings a check produces on the table of the call
WarningsOf(check) ==
  LET fs == FindingsOf(check, v_df, v_season, v_now)
  IN  { fs[i].code :
          i \in { j \in 1..Len(fs) : fs[j].level \in {"warning", "warning_in_try"} } }

\* C20: in strict mode the first warning a check produces makes
\* validate_fixtures_data raise DataValidationError at once, and no later check
\* runs; in lenient mode the call never raises over findings and every
\* warning of every check that ran is in the warnings list of the report.
C20_StrictFailsFast ==
  /\ v_strict =>
       /\ Len(v_report.warnings) <= 1
       /\ Len(v_report.warnings) = 1 =>
            v_pc = "raised" /\ v_ret = "DataValidationError"
       /\ \A n \in 1..Len(v_ran) :
            WarningsOf(v_ran[n]) # {} =>
              n = Len(v_ran) /\ v_pc = "raised" /\ v_ret = "DataValidationError"
  /\ ~ v_strict =>
       /\ v_ret # "DataValidationError"
       /\ \A n \in 1..Len(v_ran) :
            \A w \in WarningsOf(v_ran[n]) : InSeq(w, v_report.warnings)
       /\ v_pc = "returned" /\ v_report.errors = << >> =>
            \A n \in 1..Len(CheckOrder) :
              Applies(CheckOrder[n], v_df, v_season) => InSeq(CheckOrder[n], v_ran)

\* a row of the table has a date on a later day than the current one and
\* both goals
CompletedInFuture(df, current) ==
  \E i \in RowsOf(df) :
    /\ df.rows[i].date # NaT
    /\ DateOf(df.rows[i].date) > DateOf(current)
    /\ df.rows[i].goals_home # NA
    /\ df.rows[i].goals_away # NA

\* the codes of the findings of a lenient call, those of the early returns
\* included
LenientCodes(df, season, current) ==
  LET gate == gate_findings(df)
      stopped == \E n \in 1..Len(gate) : gate[n].level = "error"
      ran == IF stopped THEN {}
             ELSE { n \in 1..Len(CheckOrder) : Applies(CheckOrder[n], df, season) }
  IN  { gate[n].code : n \in 1..Len(gate) }
      \cup UNION { { FindingsOf(CheckOrder[n], df, season, current)[k].code :
                       k \in 1..Len(FindingsOf(CheckOrder[n], df, season, current)) } :
                   n \in ran }

\* the errors and warnings of a report
ReportedCodes(report) ==
  { report.errors[n] : n \in 1..Len(report.errors) }
  \cup { report.warnings[n] : n \in 1..Len(report.warnings) }

\* C21: the lenient report of a table that has the required columns and a
\* future-dated row with both goals holds a finding specific to completed
\* results on future dates: an error or warning that no table without such a
\* row gets (the warning about future dates, which a future fixture without
\* a result gets too, is not one).
C21_TemporalViolationReported ==
  ( /\ v_pc = "returned"
    /\ ~ v_strict
    /\ "date" \in v_df.columns
    /\ \A n \in 1..Len(required_cols) : required_cols[n] \in v_df.columns
    /\ CompletedInFuture(v_df, v_now) ) =>
    \E code \in ReportedCodes(v_report) :
      \A df \in Fixtures, season \in Seasons :
        code \in LenientCodes(df, season, v_now) => CompletedInFuture(df, v_now)

\* C24: when the table has the required columns and some row has a missing,
\* an empty or a whitespace-only home or away team name, the lenient call
\* returns a report whose errors cite empty team names.
C24_EmptyTeamNamesReported ==
  ( /\ v_pc \notin {"idle", "team_names"}
    /\ ~ v_strict
    /\ \A n \in 1..Len(required_cols) : required_cols[n] \in v_df.columns
    /\ \E i \in RowsOf(v_df) :
         \/ v_df.rows[i].team_home \in {MissingName, "", WhitespaceName}
         \/ v_df.rows[i].team_away \in {MissingName, "", WhitespaceName} ) =>
    /\ v_ret \in {"pending", "report"}
    /\ \/ InSeq("empty_team_names_team_home", v_report.errors)
       \/ InSeq("empty_team_names_team_away", v_report.errors)

\* a row of the table names one team as home and as away
HasSelfMatch(df) ==
  \E i \in RowsOf(df) :
    /\ df.rows[i].team_home = df.rows[i].team_away
    /\ df.rows[i].team_home \notin {MissingName, "", WhitespaceName}

RECURSIVE ApplicableFrom(_, _, _)
ApplicableFrom(n, df, season) ==
  IF n > Len(CheckOrder) THEN << >>
  ELSE (IF Applies(CheckOrder[n], df, season) THEN << CheckOrder[n] >> ELSE << >>)
       \o ApplicableFrom(n + 1, df, season)

MissingRequired(df) == \E n \in 1..Len(required_cols) : required_cols[n] \notin df.columns

\* C28: in lenient mode the checks run in the fixed order team names, goals,
\* dates (with a date column), duplicates, consistency, season completeness
\* (with a season), each of them whatever errors the earlier ones recorded;
\* the call ends before the last of them only when a required column is
\* missing, and then its report holds that error alone and no check has run.
C28_ChecksInOrder ==
  ( v_pc # "idle" /\ ~ v_strict ) =>
    LET all == ApplicableFrom(1, v_df, v_season)
    IN  /\ Len(v_ran) <= Len(all)
        /\ v_ran = SubSeq(all, 1, Len(v_ran))
        /\ v_pc # "raised"
        /\ v_pc = "returned" =>
             IF MissingRequired(v_df)
             THEN /\ v_ran = << >>
                  /\ v_report.errors = << "missing_required_columns" >>
                  /\ v_report.warnings = << >>
             ELSE v_ran = all

\* no candidate appears twice in the sequence
NoRepeats(s) == \A i \in 1..Len(s), j \in 1..Len(s) : s[i] = s[j] => i = j

\* C29: a run of scrape_league tries its candidates one after another, each
\* at most once, in the order of its candidate list, and a run that has
\* candidates ends done with the accepted table or exhausted; a run ends
\* otherwise only when the league has no candidate at all, before any attempt.
C29_RunTerminates ==
  /\ [] ( /\ Len(attempted_sources) <= Len(sources_to_try)
          /\ attempted_sources = SubSeq(sources_to_try, 1, Len(attempted_sources))
          /\ NoRepeats(attempted_sources)
          /\ pc = "trying" => Len(attempted_sources) = idx
          /\ pc = "done" => Len(attempted_sources) = idx + 1 /\ ret.kind = "df"
                            /\ Len(ret.df.rows) > 0
          /\ pc = "exhausted" => attempted_sources = sources_to_try
          /\ pc = "raised" => sources_to_try = << >> /\ attempted_sources = << >> )
  /\ (pc = "trying") ~> (pc \in {"done", "exhausted"})

\* C29 witness: three candidates were tried, each once, and the third was
\* accepted
C29_Witness ==
  /\ pc = "done"
  /\ Len(sources_to_try) = 3
  /\ attempted_sources = sources_to_try
  /\ NoRepeats(attempted_sources)

\* the two identities differ in a field, case and spaces set aside
Different(a, b) ==
  << replace_lower(a.source), replace_lower(a.competition), replace_lower(a.season) >>
    # << replace_lower(b.source), replace_lower(b.competition), replace_lower(b.season) >>

\* the record check_data_freshness and detect_data_changes consult for an
\* identity: none or one
Consulted(metadata, id) ==
  IF metadata_key(id) \in DOMAIN metadata THEN { metadata[metadata_key(id)] } ELSE {}

\* C30: a record_data_fetch for one identity leaves the record consulted for
\* every different identity as it was: it neither creates nor changes it.
C30_RecordsApart ==
  [][ ( m_ret'.op = "record" /\ m_mem'[Main] # m_mem[Main] ) =>
        \A other \in Identities :
          Different(other, m_ret'.id) =>
            Consulted(m_mem'[Main], other) = Consulted(m_mem[Main], other) ]_vars

\* both sources have rows and the four columns the comparison needs, and
\* their date columns, where both have one, are of one type
Comparable(source1, source2) ==
  /\ Len(source1.rows) > 0
  /\ Len(source2.rows) > 0
  /\ \A n \in 1..Len(common_cols) :
       common_cols[n] \in source1.columns /\ common_cols[n] \in source2.columns
  /\ "date" \in source1.columns /\ "date" \in source2.columns =>
       source1.date_dtype = source2.date_dtype

\* the pairs of rows that are one match: the same home team, the same away
\* team and, when both sources have dates, the same date
Joined(source1, source2) ==
  { p \in (1..Len(source1.rows)) \X (1..Len(source2.rows)) :
      /\ source1.rows[p[1]].team_home = source2.rows[p[2]].team_home
      /\ source1.rows[p[1]].team_away = source2.rows[p[2]].team_away
      /\ "date" \in source1.columns /\ "date" \in source2.columns =>
           source1.rows[p[1]].date = source2.rows[p[2]].date }

\* the joined matches for which the sources give different home or away goals
Disagreeing(source1, source2) ==
  { p \in Joined(source1, source2) :
      \/ source1.rows[p[1]].goals_home # source2.rows[p[2]].goals_home
      \/ source1.rows[p[1]].goals_away # source2.rows[p[2]].goals_away }

\* C22: for two sources that can be compared, the call ends with a report;
\* when the join is not empty the report's cross_validation holds
\* common_matches = the number of joined matches, goal_mismatches = the number
\* of them whose home or away goals differ, and mismatch_rate = their
\* quotient; when the join is empty the report holds the warning about no
\* common matches and no cross_validation.
C22_JoinReported ==
  ( x_pc \in {"returned", "raised"} /\ Comparable(x_s1, x_s2) ) =>
    LET joined == Joined(x_s1, x_s2)
        differ == Disagreeing(x_s1, x_s2)
        cv == x_report.cross_validation
    IN  /\ x_ret = "report"
        /\ joined # {} =>
             /\ cv.present
             /\ cv.common_matches = Cardinality(joined)
             /\ cv.goal_mismatches = Cardinality(differ)
             /\ cv.mismatch_rate = Divide(Cardinality(differ), Cardinality(joined))
        /\ joined = {} =>
             /\ InSeq("no_common_matches", x_report.warnings)
             /\ ~ cv.present

\* C23: for two sources that can be compared, the call never raises and never
\* records an error; matches on which the sources disagree yield the warning
\* about goal mismatches and the cross_validation entry, and nothing else.
C23_NeverRejects ==
  ( x_pc \in {"returned", "raised"} /\ Comparable(x_s1, x_s2) ) =>
    /\ x_ret = "report"
    /\ x_report.errors = << >>
    /\ Disagreeing(x_s1, x_s2) # {} =>
         /\ InSeq("goal_mismatches", x_report.warnings)
         /\ x_report.cross_validation.present

\* the tables have as many rows and differ in one cell exactly
OneCellApart(df1, df2) ==
  /\ Len(df1) = Len(df2)
  /\ \E i \in 1..Len(df1) :
       /\ \/ df1[i].team # df2[i].team /\ df1[i].xg = df2[i].xg
          \/ df1[i].team = df2[i].team /\ df1[i].xg # df2[i].xg
       /\ \A j \in 1..Len(df1) : j # i => df1[j] = df2[j]

\* C27: two tables with the same columns and cells get the same hash, two
\* tables that differ in one cell get different hashes, and no hash is the
\* value 'hash_error' that stands for a failed hashing.
C27_HashTellsApart ==
  h_pc = "hashed" =>
    /\ h_df1 = h_df2 => h_hash1 = h_hash2
    /\ OneCellApart(h_df1, h_df2) => h_hash1 # h_hash2
    /\ h_hash1 # HashError
    /\ h_hash2 # HashError

\* C26: never more than max_workers runs of scrape_league are under way at
\* once, and when scrape_multiple_leagues returns, its result has an entry for
\* every requested league code and for no other: the table of a run made
\* for that code, or the empty table if that run raised; this whatever the
\* order in which the runs ended and whatever the other runs did.
C26_EveryLeagueMapped ==
  /\ Cardinality(Running) <= p_max_workers
  /\ p_pc = "returned" =>
       /\ DOMAIN p_results = { p_codes[i] : i \in Tasks }
       /\ \A code \in DOMAIN p_results :
            \E i \in Tasks :
              /\ p_codes[i] = code
              /\ p_results[code] =
                   IF p_outcome[i] = "table" THEN [league_code |-> code, empty |-> FALSE]
                   ELSE [league_code |-> "", empty |-> TRUE]
       /\ \A i \in Tasks :
            (\A j \in Tasks : j # i => p_codes[j] # p_codes[i]) =>
              ( /\ p_outcome[i] = "table" =>
                     p_results[p_codes[i]] = [league_code |-> p_codes[i], empty |-> FALSE]
                /\ p_outcome[i] # "table" => p_results[p_codes[i]].empty )

\* C26 witness: three leagues with two workers; the second run raised and
\* was collected first, the third was collected before the first, and each
\* league has its own entry
C26_Witness ==
  /\ p_pc = "returned"
  /\ p_max_workers = 2
  /\ p_codes = << "ENG_PL", "USA_XX", "ESP_LL" >>
  /\ p_outcome = << "table", "raised", "table" >>
  /\ p_order = << 2, 3, 1 >>
  /\ p_results["ENG_PL"] = [league_code |-> "ENG_PL", empty |-> FALSE]
  /\ p_results["USA_XX"].empty
  /\ p_results["ESP_LL"] = [league_code |-> "ESP_LL", empty |-> FALSE]

\* a row of the table lies strictly after the instant `current` and carries
\* both goals
CompletedAfterInstant(df, current) ==
  /\ {"date", "goals_home", "goals_away"} \subseteq df.columns
  /\ \E i \in 1..Len(df.rows) :
       /\ df.rows[i].date # NaT
       /\ df.rows[i].date > current
       /\ df.rows[i].goals_home # NA
       /\ df.rows[i].goals_away # NA

\* C33 (as claimed): the table fetched from an accepted candidate has no
\* row whose date-time is strictly after now, later hours of the current
\* calendar day included, with both home and away goals present.
C33_InstantRuleRejects ==
  pc = "done" => ~CompletedAfterInstant(accepted_raw, now)

\* C34 (as claimed): a body that begins with '{' or '[' is screened as
\* JSON, with or without commas and line breaks in it: get returns such a
\* body only when it parses to a non-empty value without an error-like field
\* carrying a failure value.
C34_BraceBodyScreenedAsJson ==
  g_pc = "returned" /\ g_ret.body.first = "brace" => g_ret.body.json = "ok"

\* the step is a call of check_data_freshness, detect_data_changes or
\* get_stale_data_report
ReadOnlyCall == m_ret'.op \in {"check", "detect", "report"} /\ m_ret' # m_ret

\* C38: a call of check_data_freshness, detect_data_changes or
\* get_stale_data_report leaves the monitor's metadata and the metadata file
\* as they were, and with them the fetch_count, data_hash, record_count and
\* last_fetched of every identity, however many such calls follow each other.
C38_ReadOnlyCalls ==
  [][ ReadOnlyCall => m_mem' = m_mem /\ m_file' = m_file ]_vars

\* C38 witness: a stale-data report over a store of two records, one of them
\* stale, that was then still the content of the file
C38_Witness ==
  /\ m_ret.op = "report"
  /\ m_ret.out.stale_count = 1
  /\ Cardinality(DOMAIN m_mem[Main]) = 2
  /\ m_file = save_metadata(m_mem[Main])

\* the identity a stored record was recorded for
IdentityOf(meta) ==
  [source |-> meta.source, competition |-> meta.competition, season |-> meta.season]

\* C39: get_stale_data_report puts every stored record in exactly one of
\* stale_sources and fresh_sources, in fresh_sources iff check_data_freshness
\* for that record with the same max_age_hours at the same instant says
\* is_fresh; stale_count + fresh_count = total_sources = number of records.
C39_ReportPartitionsRecords ==
  m_ret.op = "report" =>
    LET out == m_ret.out
        metadata == m_mem[Main]
    IN  /\ out.stale_sources \cup out.fresh_sources = DOMAIN metadata
        /\ out.stale_sources \cap out.fresh_sources = {}
        /\ \A k \in DOMAIN metadata :
             k \in out.fresh_sources <=>
               check_data_freshness(metadata, IdentityOf(metadata[k]), m_ret.arg,
                                    m_ret.at).is_fresh
        /\ out.stale_count = Cardinality(out.stale_sources)
        /\ out.fresh_count = Cardinality(out.fresh_sources)
        /\ out.stale_count + out.fresh_count = out.total_sources
        /\ out.total_sources = Cardinality(DOMAIN metadata)

\* C39 witness: a report with max_age_hours = 24 over a record that is
\* exactly 24 hours old, listed as fresh
C39_Witness ==
  /\ m_ret.op = "report"
  /\ m_ret.arg = 24
  /\ m_ret.out.fresh_count = 1
  /\ \E k \in m_ret.out.fresh_sources :
       m_ret.at - fromisoformat(m_mem[Main][k].last_fetched) = 24

\* C37 (as claimed): when a monitor that was constructed while the metadata
\* file failed to load records a fetch for one identity, every record the
\* file held for another identity is still in the file afterwards.
C37_LoadFailureKeepsRecords ==
  [][ ( m_ret.op = "construct_load_failed" /\ m_ret'.op = "record" ) =>
        \A k \in DOMAIN m_file :
          k # metadata_key(m_ret'.id) => k \in DOMAIN m_file' /\ m_file'[k] = m_file[k]
    ]_vars

\* the number of distinct teams of the table
DistinctTeams(df) ==
  Cardinality({ df.rows[i].team_home : i \in RowsOf(df) }
              \cup { df.rows[i].team_away : i \in RowsOf(df) })

\* m rows are below 80% or above 120% of the round-robin count n * (n - 1)
OutsideRoundRobin(m, n) ==
  \/ 10 * m < 8 * (n * (n - 1))
  \/ 10 * m > 12 * (n * (n - 1))

\* C36 (as claimed): the lenient report returned for a table with rows and
\* the required columns holds a completeness warning iff the row count is
\* below 80% or above 120% of n * (n - 1), n being the number of distinct
\* teams.
C36_CompletenessCompared ==
  ( /\ v_pc = "returned"
    /\ ~ v_strict
    /\ Len(v_df.rows) > 0
    /\ ~ MissingRequired(v_df) ) =>
    ( ( \/ InSeq("season_incomplete", v_report.warnings)
        \/ InSeq("more_matches", v_report.warnings) )
      <=> OutsideRoundRobin(Len(v_df.rows), DistinctTeams(v_df)) )

\* the values of one metric over the entries of a lookback window
WindowValues(field) ==
  [i \in 1..Len(t_ret.out.recent_history) |-> t_ret.out.recent_history[i][field]]

\* the least-squares slope of the values over their position 0, 1, ...,
\* times the denominator n * sum(x^2) - sum(x)^2, which is positive for two
\* values or more
SlopeTimes(values) ==
  LET n == Len(values)
  IN  n * SumTo(LAMBDA i : (i - 1) * values[i], n)
        - SumTo(LAMBDA i : i - 1, n) * SumTo(LAMBDA i : values[i], n)

SlopeDenominator(values) ==
  LET n == Len(values)
  IN  n * SumTo(LAMBDA i : (i - 1) * (i - 1), n)
        - SumTo(LAMBDA i : i - 1, n) * SumTo(LAMBDA i : i - 1, n)

\* the trend is the classification of the slope of the values, which are
\* counted in 1/unit
ClassifiedBySlope(trend, values, unit) ==
  /\ trend \in {"stable", "increasing", "decreasing"}
  /\ Len(values) >= 2 =>
       /\ trend = "stable" <=>
            10 * Abs(SlopeTimes(values)) < unit * SlopeDenominator(values)
       /\ trend = "increasing" => SlopeTimes(values) > 0
       /\ trend = "decreasing" => SlopeTimes(values) < 0

\* C35 (as claimed): whenever the lookback window of get_quality_trend holds
\* at least one entry, the trend of each of the three metrics is one of
\* stable, increasing and decreasing: stable iff the absolute slope of the
\* values over their position is below 0.1, else increasing for a positive
\* and decreasing for a negative slope.
C35_TrendClassified ==
  t_ret.out.recent_history # << >> =>
    /\ t_ret.out.status = "analyzed"
    /\ ClassifiedBySlope(t_ret.out.trend.error_trend, WindowValues("error_count"), 1)
    /\ ClassifiedBySlope(t_ret.out.trend.warning_trend, WindowValues("warning_count"), 1)
    /\ ClassifiedBySlope(t_ret.out.trend.completeness_trend,
                         WindowValues("completeness"), Halves)

\* the dict a lenient call fills when no other call touches it
RECURSIVE ApplySteps(_, _)
ApplySteps(report, fs) ==
  IF fs = << >> THEN report
  ELSE ApplySteps(apply_step(<< report >>, 1, Head(fs))[1], Tail(fs))

\* the report of the findings of the call's own arguments
OwnReport(call) ==
  ApplySteps(NewReport,
             call_steps([method |-> call.method, df |-> call.df, season |-> call.season,
                         s1 |-> call.s1, s2 |-> call.s2, sources |-> call.sources,
                         required |-> call.required],
                        CHOOSE current \in Nows : TRUE))

\* every call made on the object so far is a validate_fixtures_data call
OnlyFixturesCalls ==
  /\ \A t \in Threads : s_call[t].method \in {"", "validate_fixtures_data"}
  /\ \A n \in 1..Len(s_returned) : s_returned[n].call.method = "validate_fixtures_data"

\* C31 (as claimed): when threads run validate_fixtures_data on one shared
\* validator, the report each call returns holds exactly the findings of the
\* call's own dataset: none of another call's, and none of its own missing.
C31_OwnFindingsOnly ==
  OnlyFixturesCalls =>
    \A n \in 1..Len(s_returned) :
      s_returned[n].on_return = OwnReport(s_returned[n].call)

\* thread t takes the step, inside a call made after the n-th return
LaterCallActs(t, n) ==
  /\ s_call[t].number > s_returned[n].calls
  /\ s_pc'[t] # s_pc[t] \/ s_todo'[t] # s_todo[t]

\* C32: a validation call made on the validator after a report was returned
\* builds a dict of its own: none of its steps changes the errors, warnings,
\* info or keys of a report returned before it was made, and the report it
\* returns is another dict than each of those.
C32_ReturnedReportsKept ==
  [][ /\ \A n \in 1..Len(s_returned) : \A t \in Threads :
           LaterCallActs(t, n) =>
             s_heap'[s_returned[n].report] = s_heap[s_returned[n].report]
      /\ \A n \in 1..Len(s_returned') : \A m \in 1..Len(s_returned') :
           s_returned'[m].call.number > s_returned'[n].calls =>
             s_returned'[m].report # s_returned'[n].report ]_vars

\* C32 witness: a report with an error was returned, a call made afterwards
\* has returned a report with other findings, and the first report is as it
\* was on return
C32_Witness ==
  /\ Len(s_returned) = 2
  /\ s_returned[2].call.number > s_returned[1].calls
  /\ s_returned[1].on_return.errors # << >>
  /\ s_returned[2].on_return # s_returned[1].on_return
  /\ s_heap[s_returned[1].report] = s_returned[1].on_return

====
